---- MODULE Spec2Model ----
(***************************************************************************)
(* Code Guardian: the LangGraph test-generation workflow                   *)
(* (src/src/orchestrator.py), its API wrapper, and the LLM provider        *)
(* factory (src/services/llm_factory.py) with the agents built on it.      *)
(*                                                                         *)
(* Python strings are sequences of tokens: a token is a character or an    *)
(* indivisible piece of text, concatenation is \o, the empty string is     *)
(* << >>.  Python's None is the one-token sequence None below, which no    *)
(* string of the model equals.                                             *)
(***************************************************************************)
EXTENDS Integers, Sequences, FiniteSets, TLC

\* ------------------------------------------------------------------ bounds
MaxLen == 2

\* ----------------------------------------------------------------- strings
None == <<"<None>">>
Absent == <<"<absent>">>

Str(tok) == <<tok>>

StringsOver(alphabet) == UNION {[1..n -> alphabet] : n \in 0..MaxLen}

Truthy(s) == s # None /\ s # <<>>

Contains(s, tok) == \E i \in DOMAIN s : s[i] = tok

RECURSIVE lstrip(_)
lstrip(s) == IF s = <<>> THEN s
             ELSE IF Head(s) = " " THEN lstrip(Tail(s)) ELSE s

RECURSIVE rstrip(_)
rstrip(s) == IF s = <<>> THEN s
             ELSE IF s[Len(s)] = " " THEN rstrip(SubSeq(s, 1, Len(s) - 1)) ELSE s

strip(s) == rstrip(lstrip(s))

\* ------------------------------------------------------------------ inputs
TextChars == {" ", "def", "function"}
PathChars == {"a", ".py", ".xx"}
UrlChars == {"u"}

TextValues == StringsOver(TextChars) \cup {None}
PathValues == StringsOver(PathChars) \cup {None}
UrlValues == StringsOver(UrlChars) \cup {None}

\* InputType members by value; Undeclared stands for any value outside the enum
TEXT == "text"
FILE == "file"
GITLAB == "gitlab"
Undeclared == "undeclared"
InputType == {TEXT, FILE, GITLAB}

NoOutput ==
  [present |-> FALSE, success |-> FALSE, input_type |-> Absent,
   detected_language |-> Absent, test_framework |-> Absent,
   generated_tests |-> Absent, coverage_notes |-> Absent, error |-> Absent,
   processing_messages |-> <<>>]

ProcessingState(it, text, path, url) ==
  [input_type |-> it, text_input |-> text, file_path |-> path, gitlab_url |-> url,
   is_valid |-> FALSE, processed_code |-> None, detected_language |-> None,
   generated_tests |-> None, test_framework |-> None, coverage_notes |-> None,
   final_output |-> NoOutput, error_message |-> None, messages |-> <<>>]

\* ------------------------------------------------------- external outcomes
\* an outcome of a call into a collaborator: a value, or a raised exception
Returned(v) == [ok |-> TRUE, val |-> v]
Raised(e) == [ok |-> FALSE, val |-> e]

NotCalled == [ok |-> FALSE, val |-> Absent]

LLMOutcomes == {Returned(<<>>), Returned(Str("tests")), Raised(Str("LLM call failed"))}
FileOutcomes == {Returned(<<>>), Returned(Str("code")), Raised(Str("No such file"))}
FileBanner(path) == <<"\n", "# ===== File: ">> \o path \o <<" =====", "\n">>
RepoOutcomes == {Returned(<<>>),
                 Returned(FileBanner(<<"a", ".py">>) \o <<"\n", "code">>),
                 Returned(FileBanner(<<"a", ".js">>) \o <<"\n", "code">>),
                 Raised(Str("Invalid GitLab URL"))}

\* ------------------------------------------------ src/src/llm_calls.py
determine_test_framework(language) ==
  CASE language = Str("python") -> Str("pytest")
    [] language = Str("java") -> Str("JUnit 5")
    [] language = Str("javascript") -> Str("Jest")
    [] language = Str("typescript") -> Str("Jest")
    [] language = Str("c#") -> Str("NUnit")
    [] language = Str("go") -> Str("testing")
    [] OTHER -> Str("framework-specific")

LinesOfCode(code) == 1 + Cardinality({i \in DOMAIN code : code[i] = "\n"})

generate_coverage_notes(code, language) ==
  LET lines_of_code == LinesOfCode(code)
      complexity == IF lines_of_code < 50 THEN "low"
                    ELSE IF lines_of_code < 200 THEN "medium" ELSE "high"
  IN <<"Test Coverage Analysis: complexity ", complexity, " lines ", ToString(lines_of_code)>>

\* TestGenerationChain.generate_tests: llm is the outcome of chain.run
chain_generate_tests(code, language, llm) ==
  IF ~llm.ok THEN Raised(llm.val)
  ELSE IF language = None THEN Raised(Str("'NoneType' object has no attribute 'lower'"))
  ELSE Returned([test_code |-> llm.val,
                 framework |-> determine_test_framework(language),
                 coverage_notes |-> generate_coverage_notes(code, language)])

\* OpenAIClient.generate_tests: never raises, language defaults to "python"
client_generate_tests(code_content, llm) ==
  LET r == chain_generate_tests(code_content, Str("python"), llm)
  IN IF r.ok THEN r.val.test_code
     ELSE <<"# Error generating tests: ">> \o r.val
          \o <<"\n", "# Original code:", "\n">> \o code_content

\* -------------------------------------------- src/src/input_handlers.py
TextHandler_process(source_code_text, llm) == client_generate_tests(source_code_text, llm)

TextHandler_detect_language(code) == Str("python")

FileHandler_process(file, llm) ==
  IF file.ok THEN Returned(client_generate_tests(file.val, llm)) ELSE Raised(file.val)

IsDotToken(tok) == tok \in {".py", ".xx", ".java", ".js"}

\* os.path.splitext(path)[1]: from the last dot on, unless that dot leads the name
splitext_ext(path) ==
  LET dots == {i \in DOMAIN path : IsDotToken(path[i])}
  IN IF dots = {} THEN <<>>
     ELSE LET k == CHOOSE i \in dots : \A j \in dots : j <= i
          IN IF k = 1 THEN <<>> ELSE SubSeq(path, k, Len(path))

\* mutant: looks at the end of the path instead of splitting the extension off
detect_language_from_file_EndsWith(file_path) ==
  LET last == IF file_path = <<>> THEN <<>> ELSE <<file_path[Len(file_path)]>>
  IN CASE last = Str(".py") -> Str("python")
       [] last = Str(".java") -> Str("java")
       [] last = Str(".js") -> Str("javascript")
       [] OTHER -> Str("unknown")

detect_language_from_file(file_path) ==
  LET ext == splitext_ext(file_path)
  IN CASE ext = Str(".py") -> Str("python")
       [] ext = Str(".java") -> Str("java")
       [] ext = Str(".js") -> Str("javascript")
       [] OTHER -> Str("unknown")

\* mutant: the placeholder leaves the URL out
GitLabHandler_process_NoUrl(gitlab_url, repo) ==
  IF repo.ok THEN repo.val
  ELSE <<"# Error processing GitLab repository: ">> \o repo.val

\* GitLabHandler.process: repo is the outcome of get_repository_source_code
GitLabHandler_process(gitlab_url, repo) ==
  IF repo.ok THEN repo.val
  ELSE <<"# Error processing GitLab repository: ">> \o repo.val
       \o <<"\n", "# URL: ">> \o gitlab_url

detect_primary_language(code) ==
  IF Contains(code, ".py") THEN Str("python")
  ELSE IF Contains(code, ".java") THEN Str("java")
  ELSE IF Contains(code, ".js") \/ Contains(code, ".jsx") THEN Str("javascript")
  ELSE IF Contains(code, ".ts") \/ Contains(code, ".tsx") THEN Str("typescript")
  ELSE IF Contains(code, ".cs") THEN Str("c#")
  ELSE IF Contains(code, ".go") THEN Str("go")
  ELSE Str("unknown")

\* --------------------------------------------- src/src/orchestrator.py
\* mutant: the TEXT branch forgets to strip
ValidationError_NoStrip(s) ==
  IF s.input_type = TEXT THEN
    IF ~Truthy(s.text_input) THEN Str("Empty text input provided") ELSE None
  ELSE IF s.input_type = FILE THEN
    IF ~Truthy(s.file_path) THEN Str("No file path provided") ELSE None
  ELSE IF s.input_type = GITLAB THEN
    IF ~Truthy(s.gitlab_url) THEN Str("No GitLab URL provided") ELSE None
  ELSE <<"Unsupported input type: ", s.input_type>>

\* mutant: the FILE branch checks nothing
ValidationError_NoFileCheck(s) ==
  IF s.input_type = TEXT THEN
    IF ~Truthy(s.text_input) \/ Len(strip(s.text_input)) = 0
    THEN Str("Empty text input provided") ELSE None
  ELSE IF s.input_type = FILE THEN None
  ELSE IF s.input_type = GITLAB THEN
    IF ~Truthy(s.gitlab_url) THEN Str("No GitLab URL provided") ELSE None
  ELSE <<"Unsupported input type: ", s.input_type>>

\* the ValueError raised inside _validate_input's try block, None when none is
ValidationError(s) ==
  IF s.input_type = TEXT THEN
    IF ~Truthy(s.text_input) \/ Len(strip(s.text_input)) = 0
    THEN Str("Empty text input provided") ELSE None
  ELSE IF s.input_type = FILE THEN
    IF ~Truthy(s.file_path) THEN Str("No file path provided") ELSE None
  ELSE IF s.input_type = GITLAB THEN
    IF ~Truthy(s.gitlab_url) THEN Str("No GitLab URL provided") ELSE None
  ELSE <<"Unsupported input type: ", s.input_type>>

validate_input(s) ==
  LET e == ValidationError(s)
  IN IF e = None
     THEN [s EXCEPT !.is_valid = TRUE,
                    !.messages = Append(@, Str("Input validation successful"))]
     ELSE [s EXCEPT !.is_valid = FALSE,
                    !.error_message = e,
                    !.messages = Append(@, <<"Validation error: ">> \o e)]

\* mutant: routes by the first populated field instead of input_type
route_by_input_type_ByField(s) ==
  IF ~s.is_valid THEN "error"
  ELSE IF Truthy(s.text_input) THEN "text"
  ELSE IF Truthy(s.file_path) THEN "file"
  ELSE IF Truthy(s.gitlab_url) THEN "gitlab"
  ELSE "error"

route_by_input_type(s) ==
  IF ~s.is_valid THEN "error"
  ELSE CASE s.input_type = TEXT -> "text"
         [] s.input_type = FILE -> "file"
         [] s.input_type = GITLAB -> "gitlab"
         [] OTHER -> "error"

\* _build_workflow: the conditional edges out of validate_input
ConditionalEdge(route) ==
  CASE route = "text" -> "process_text"
    [] route = "file" -> "process_file"
    [] route = "gitlab" -> "process_gitlab"
    [] route = "error" -> "END"

\* mutant: the processing nodes are wired straight to format_output
Edge_SkipsGenerate(n) ==
  CASE n \in {"process_text", "process_file", "process_gitlab"} -> "format_output"
    [] n = "generate_tests" -> "format_output"
    [] n = "format_output" -> "END"

\* _build_workflow: the plain edges
Edge(n) ==
  CASE n \in {"process_text", "process_file", "process_gitlab"} -> "generate_tests"
    [] n = "generate_tests" -> "format_output"
    [] n = "format_output" -> "END"

\* TextHandler() and GitLabHandler() are built from the configuration the
\* orchestrator's own chain was built from, and their process() catches every
\* exception, so the except branches of these two nodes have no run.
process_text_input(s, llm) ==
  [s EXCEPT !.processed_code = TextHandler_process(s.text_input, llm),
            !.detected_language = TextHandler_detect_language(s.text_input),
            !.messages = Append(@, Str("Text input processed successfully"))]

process_file_input(s, file, llm) ==
  LET r == FileHandler_process(file, llm)
  IN IF r.ok
     THEN [s EXCEPT !.processed_code = r.val,
                    !.detected_language = detect_language_from_file(s.file_path),
                    !.messages = Append(@, Str("File input processed successfully"))]
     ELSE [s EXCEPT !.error_message = r.val,
                    !.messages = Append(@, <<"File processing error: ">> \o r.val)]

\* mutant: a placeholder from the handler is recorded as the node's error
process_gitlab_input_RecordsError(s, repo) ==
  LET processed_code == GitLabHandler_process(s.gitlab_url, repo)
  IN [s EXCEPT !.processed_code = processed_code,
               !.detected_language = detect_primary_language(processed_code),
               !.error_message = IF repo.ok THEN @ ELSE repo.val,
               !.messages = Append(@, IF repo.ok
                                      THEN Str("GitLab repository processed successfully")
                                      ELSE <<"GitLab processing error: ">> \o repo.val)]

process_gitlab_input(s, repo) ==
  LET processed_code == GitLabHandler_process(s.gitlab_url, repo)
  IN [s EXCEPT !.processed_code = processed_code,
               !.detected_language = detect_primary_language(processed_code),
               !.messages = Append(@, Str("GitLab repository processed successfully"))]

\* mutant: the except branch hands the error text on as the generated tests
generate_tests_ErrorAsTests(s, llm) ==
  LET r == IF ~Truthy(s.processed_code)
           THEN Raised(Str("No processed code available for test generation"))
           ELSE chain_generate_tests(s.processed_code, s.detected_language, llm)
  IN IF r.ok
     THEN [s EXCEPT !.generated_tests = r.val.test_code,
                    !.test_framework = r.val.framework,
                    !.coverage_notes = r.val.coverage_notes,
                    !.messages = Append(@, Str("Unit tests generated successfully"))]
     ELSE [s EXCEPT !.error_message = r.val,
                    !.generated_tests = <<"# Error generating tests: ">> \o r.val,
                    !.messages = Append(@, <<"Test generation error: ">> \o r.val)]

\* mutant: an error that a node recorded before is not overwritten
generate_tests_KeepsFirstError(s, llm) ==
  LET r == IF ~Truthy(s.processed_code)
           THEN Raised(Str("No processed code available for test generation"))
           ELSE chain_generate_tests(s.processed_code, s.detected_language, llm)
  IN IF r.ok
     THEN [s EXCEPT !.generated_tests = r.val.test_code,
                    !.test_framework = r.val.framework,
                    !.coverage_notes = r.val.coverage_notes,
                    !.messages = Append(@, Str("Unit tests generated successfully"))]
     ELSE [s EXCEPT !.error_message = IF @ = None THEN r.val ELSE @,
                    !.messages = Append(@, <<"Test generation error: ">> \o r.val)]

generate_tests(s, llm) ==
  LET r == IF ~Truthy(s.processed_code)
           THEN Raised(Str("No processed code available for test generation"))
           ELSE chain_generate_tests(s.processed_code, s.detected_language, llm)
  IN IF r.ok
     THEN [s EXCEPT !.generated_tests = r.val.test_code,
                    !.test_framework = r.val.framework,
                    !.coverage_notes = r.val.coverage_notes,
                    !.messages = Append(@, Str("Unit tests generated successfully"))]
     ELSE [s EXCEPT !.error_message = r.val,
                    !.messages = Append(@, <<"Test generation error: ">> \o r.val)]

\* mutant: tests "is not None" instead of truthiness
format_output_IsNotNone(s) ==
  LET output ==
        IF s.generated_tests # None
        THEN [NoOutput EXCEPT !.present = TRUE, !.success = TRUE,
                              !.input_type = Str(s.input_type),
                              !.detected_language = s.detected_language,
                              !.test_framework = s.test_framework,
                              !.generated_tests = s.generated_tests,
                              !.coverage_notes = s.coverage_notes,
                              !.processing_messages = s.messages]
        ELSE [NoOutput EXCEPT !.present = TRUE, !.success = FALSE,
                              !.error = s.error_message,
                              !.processing_messages = s.messages]
  IN [s EXCEPT !.final_output = output,
               !.messages = Append(@, Str("Output formatted successfully"))]

\* mutant: the payload is built after the node's own message is appended
format_output_CountsItself(s) ==
  LET messages == Append(s.messages, Str("Output formatted successfully"))
      output ==
        IF Truthy(s.generated_tests)
        THEN [NoOutput EXCEPT !.present = TRUE, !.success = TRUE,
                              !.input_type = Str(s.input_type),
                              !.detected_language = s.detected_language,
                              !.test_framework = s.test_framework,
                              !.generated_tests = s.generated_tests,
                              !.coverage_notes = s.coverage_notes,
                              !.processing_messages = messages]
        ELSE [NoOutput EXCEPT !.present = TRUE, !.success = FALSE,
                              !.error = s.error_message,
                              !.processing_messages = messages]
  IN [s EXCEPT !.final_output = output, !.messages = messages]

format_output(s) ==
  LET output ==
        IF Truthy(s.generated_tests)
        THEN [NoOutput EXCEPT !.present = TRUE, !.success = TRUE,
                              !.input_type = Str(s.input_type),
                              !.detected_language = s.detected_language,
                              !.test_framework = s.test_framework,
                              !.generated_tests = s.generated_tests,
                              !.coverage_notes = s.coverage_notes,
                              !.processing_messages = s.messages]
        ELSE [NoOutput EXCEPT !.present = TRUE, !.success = FALSE,
                              !.error = s.error_message,
                              !.processing_messages = s.messages]
  IN [s EXCEPT !.final_output = output,
               !.messages = Append(@, Str("Output formatted successfully"))]

\* The three entry points build the initial state themselves; "invoke" is
\* app.invoke on a ProcessingState the caller built.
generate_tests_from_text(text_input) == ProcessingState(TEXT, text_input, None, None)
generate_tests_from_file(file_path) == ProcessingState(FILE, None, file_path, None)
generate_tests_from_gitlab(gitlab_url) == ProcessingState(GITLAB, None, None, gitlab_url)

\* ------------------------------------------------------- the API layer
\* api/schemas.py TextTestGenerationRequest: code is required, min_length 1,
\* and code_not_empty rejects a blank string (max_length is beyond MaxLen)
TextRequestValid(code) == code # None /\ Len(code) >= 1 /\ strip(code) # <<>>

NoResponse == [status |-> 0, success |-> FALSE, error |-> Absent, error_code |-> Absent]

\* api/services/orchestrator_service.py generate_from_text: run is what the
\* entry point did in the thread pool, an exception becomes a failure payload
OrchestratorService_generate_from_text(run) ==
  IF run.ok THEN run.val
  ELSE [NoOutput EXCEPT !.present = TRUE, !.success = FALSE, !.error = run.val,
                        !.processing_messages = << <<"Error: ">> \o run.val >>]

\* api/routers/test_generation.py generate_from_text, given what the
\* orchestrator service returned
generate_from_text(res) ==
  IF ~res.present
  THEN \* result is None: result.get raises AttributeError, caught at line 92
       [status |-> 500, success |-> FALSE,
        error |-> Str("'NoneType' object has no attribute 'get'"),
        error_code |-> Str("INTERNAL_ERROR")]
  ELSE IF res.success
  THEN [status |-> 200, success |-> TRUE, error |-> Absent, error_code |-> Absent]
  ELSE IF res.error = None
  THEN \* TestGenerationErrorResponse(error=None) fails validation: error is a str
       [status |-> 500, success |-> FALSE,
        error |-> Str("1 validation error for TestGenerationErrorResponse"),
        error_code |-> Str("INTERNAL_ERROR")]
  ELSE [status |-> 400, success |-> FALSE,
        error |-> IF res.error = Absent THEN Str("Unknown error occurred") ELSE res.error,
        error_code |-> Str("GENERATION_FAILED")]

\* ---------------------------------------- services/llm_factory.py
AzureVars == {"AZURE_OPENAI_API_KEY", "AZURE_OPENAI_DEPLOYMENT_NAME",
              "AZURE_OPENAI_API_VERSION", "AZURE_OPENAI_ENDPOINT",
              "AZURE_OPENAI_API_BASE"}

OpenAIVars == {"OPENAI_API_KEY", "OPENAI_MODEL_NAME"}

EnvVars == AzureVars \cup OpenAIVars

\* a variable of the process environment is unset, set to "" or set to a value
EnvSettings == {"unset", "empty", "set"}

Environments == [EnvVars -> EnvSettings]

\* os.getenv(var)
getenv(env, var) ==
  CASE env[var] = "unset" -> None
    [] env[var] = "empty" -> <<>>
    [] env[var] = "set" -> <<"$", var>>

\* os.getenv(var, default)
getenv_default(env, var, default) ==
  IF env[var] = "unset" THEN default ELSE getenv(env, var)

\* a or b on strings
Or(a, b) == IF Truthy(a) THEN a ELSE b

NoClient ==
  [kind |-> None, api_key |-> None, azure_endpoint |-> None,
   deployment_name |-> None, api_version |-> None, model |-> None]

\* what the constructors of the two LangChain clients can do
ClientCtorOutcomes == {Returned(<<>>), Raised(Str("client rejected its configuration"))}

\* mutant: the endpoint is not required
azure_missing_vars_NoEndpoint(env) ==
  SelectSeq(<<"AZURE_OPENAI_API_KEY", "AZURE_OPENAI_DEPLOYMENT_NAME",
              "AZURE_OPENAI_API_VERSION">>,
            LAMBDA var : ~Truthy(getenv(env, var)))

\* _check_azure_credentials: missing_vars
azure_missing_vars(env) ==
  SelectSeq(<<"AZURE_OPENAI_API_KEY", "AZURE_OPENAI_DEPLOYMENT_NAME",
              "AZURE_OPENAI_API_VERSION">>,
            LAMBDA var : ~Truthy(getenv(env, var)))
  \o (IF ~Truthy(Or(getenv(env, "AZURE_OPENAI_ENDPOINT"),
                    getenv(env, "AZURE_OPENAI_API_BASE")))
      THEN <<"AZURE_OPENAI_ENDPOINT ou AZURE_OPENAI_API_BASE">>
      ELSE <<>>)

check_azure_credentials(env) == azure_missing_vars(env) = <<>>

\* mutant: the model name is not required
openai_missing_vars_KeyOnly(env) ==
  SelectSeq(<<"OPENAI_API_KEY">>, LAMBDA var : ~Truthy(getenv(env, var)))

\* _check_openai_credentials: missing_vars
openai_missing_vars(env) ==
  SelectSeq(<<"OPENAI_API_KEY", "OPENAI_MODEL_NAME">>,
            LAMBDA var : ~Truthy(getenv(env, var)))

check_openai_credentials(env) == openai_missing_vars(env) = <<>>

create_azure_llm(env, ctor) ==
  IF ctor.ok
  THEN Returned([NoClient EXCEPT
         !.kind = Str("AzureChatOpenAI"),
         !.api_key = getenv(env, "AZURE_OPENAI_API_KEY"),
         !.azure_endpoint = Or(getenv(env, "AZURE_OPENAI_ENDPOINT"),
                               getenv(env, "AZURE_OPENAI_API_BASE")),
         !.deployment_name = getenv(env, "AZURE_OPENAI_DEPLOYMENT_NAME"),
         !.api_version = getenv(env, "AZURE_OPENAI_API_VERSION")])
  ELSE Raised(<<"Falha na inicializacao do Azure OpenAI: ">> \o ctor.val)

create_openai_llm(env, ctor) ==
  IF ctor.ok
  THEN Returned([NoClient EXCEPT
         !.kind = Str("ChatOpenAI"),
         !.api_key = getenv(env, "OPENAI_API_KEY"),
         !.model = getenv_default(env, "OPENAI_MODEL_NAME", Str("gpt-4"))])
  ELSE Raised(<<"Falha na inicializacao da OpenAI padrao: ">> \o ctor.val)

\* initialize_llm_provider: error_msg, one token per sentence and per variable
\* name (the strings are the source's without accents and symbols)
provider_error_msg(azure_available, openai_available) ==
  <<"Nenhum provedor LLM pode ser inicializado.">>
  \o (IF ~azure_available /\ ~openai_available
      THEN <<"Nenhuma credencial de LLM configurada no ambiente.">>
      ELSE IF ~azure_available
      THEN <<"Credenciais Azure OpenAI ausentes ou incompletas.">>
      ELSE IF ~openai_available
      THEN <<"Credenciais OpenAI padrao ausentes ou incompletas.">>
      ELSE <<>>)
  \o <<"Configure pelo menos um dos seguintes conjuntos de variaveis no arquivo .env:",
       "- Azure OpenAI:", "AZURE_OPENAI_API_KEY", "AZURE_OPENAI_API_BASE",
       "AZURE_OPENAI_DEPLOYMENT_NAME", "AZURE_OPENAI_API_VERSION",
       "- OpenAI padrao:", "OPENAI_API_KEY", "OPENAI_MODEL_NAME">>

NoProvider == [called |-> FALSE, ok |-> FALSE, client |-> NoClient,
               error |-> None, attempted |-> <<>>]

\* mutant: a failed construction of the first client is raised at once
initialize_llm_provider_NoFallback(env, azure_ctor, openai_ctor) ==
  LET azure_available == check_azure_credentials(env)
      azure == create_azure_llm(env, azure_ctor)
      openai_available == check_openai_credentials(env)
      openai == create_openai_llm(env, openai_ctor)
  IN IF azure_available
     THEN IF azure.ok
          THEN [called |-> TRUE, ok |-> TRUE, client |-> azure.val, error |-> None,
                attempted |-> <<[provider |-> "azure", ok |-> TRUE]>>]
          ELSE [called |-> TRUE, ok |-> FALSE, client |-> NoClient, error |-> azure.val,
                attempted |-> <<[provider |-> "azure", ok |-> FALSE]>>]
     ELSE IF openai_available /\ openai.ok
     THEN [called |-> TRUE, ok |-> TRUE, client |-> openai.val, error |-> None,
           attempted |-> <<[provider |-> "openai", ok |-> TRUE]>>]
     ELSE [called |-> TRUE, ok |-> FALSE, client |-> NoClient,
           error |-> provider_error_msg(azure_available, openai_available),
           attempted |-> IF openai_available
                         THEN <<[provider |-> "openai", ok |-> FALSE]>> ELSE <<>>]

\* initialize_llm_provider (load_llm redirects to it): the client returned or
\* the LLMInitializationError raised, with the constructors it attempted
initialize_llm_provider(env, azure_ctor, openai_ctor) ==
  LET azure_available == check_azure_credentials(env)
      azure == create_azure_llm(env, azure_ctor)
      azure_tried == IF azure_available
                     THEN <<[provider |-> "azure", ok |-> azure.ok]>> ELSE <<>>
  IN IF azure_available /\ azure.ok
     THEN [called |-> TRUE, ok |-> TRUE, client |-> azure.val,
           error |-> None, attempted |-> azure_tried]
     ELSE
       LET openai_available == check_openai_credentials(env)
           openai == create_openai_llm(env, openai_ctor)
           openai_tried == IF openai_available
                           THEN <<[provider |-> "openai", ok |-> openai.ok]>> ELSE <<>>
       IN IF openai_available /\ openai.ok
          THEN [called |-> TRUE, ok |-> TRUE, client |-> openai.val,
                error |-> None, attempted |-> azure_tried \o openai_tried]
          ELSE [called |-> TRUE, ok |-> FALSE, client |-> NoClient,
                error |-> provider_error_msg(azure_available, openai_available),
                attempted |-> azure_tried \o openai_tried]

\* ------------------------------------------------------------- agents/
Agents == {"StoryAgent", "TestGeneratorAgent", "BugFixerAgent"}

NoInstance == [constructed |-> FALSE, llm |-> NoClient, use_llm |-> FALSE,
               raised |-> None]

\* StoryAgent.__init__: the except branch keeps the instance, without an LLM
StoryAgent_init(p) ==
  IF p.ok
  THEN [constructed |-> TRUE, llm |-> p.client, use_llm |-> TRUE, raised |-> None]
  ELSE [constructed |-> TRUE, llm |-> NoClient, use_llm |-> FALSE, raised |-> None]

\* StoryAgent.generate_stories: the implementation it dispatches to
generate_stories(self) ==
  IF self.use_llm THEN "_generate_stories_with_llm" ELSE "_generate_stories_mock"

\* mutant: the constructor swallows the error and keeps an instance without LLM
Agent_init_Swallows(p) ==
  IF p.ok
  THEN [constructed |-> TRUE, llm |-> p.client, use_llm |-> TRUE, raised |-> None]
  ELSE [constructed |-> TRUE, llm |-> NoClient, use_llm |-> TRUE, raised |-> None]

\* TestGeneratorAgent.__init__: load_llm() is not guarded
TestGeneratorAgent_init(p) ==
  IF p.ok
  THEN [constructed |-> TRUE, llm |-> p.client, use_llm |-> TRUE, raised |-> None]
  ELSE [NoInstance EXCEPT !.raised = p.error]

\* BugFixerAgent.__init__: load_llm() is not guarded
BugFixerAgent_init(p) ==
  IF p.ok
  THEN [constructed |-> TRUE, llm |-> p.client, use_llm |-> TRUE, raised |-> None]
  ELSE [NoInstance EXCEPT !.raised = p.error]

\* ------------------------------------------ agents/bug_fixer_agent.py
\* what self.llm.invoke(messages) can do: raise, or return a response whose
\* content is a JSON object, JSON that is no object, or no JSON at all
NoJson == [fixed_code |-> Absent, explanation |-> Absent,
           changes_made |-> Absent, prevention_tips |-> Absent]

Content(kind, text, obj) == [kind |-> kind, text |-> text, obj |-> obj]

BugFixLLMOutcomes ==
  { Raised(Str("Connection error.")),
    Returned(Content("object", Str("{...}"),
                     [fixed_code |-> Str("x = 1/0 if y else 0"),
                      explanation |-> Str("guarded the division"),
                      changes_made |-> Str("added a guard"),
                      prevention_tips |-> Str("check the divisor")])),
    Returned(Content("object", Str("{}"), NoJson)),
    Returned(Content("object", Str("{\"fixed_code\": null}"),
                     [NoJson EXCEPT !.fixed_code = None])),
    Returned(Content("array", Str("[]"), NoJson)),
    Returned(Content("text", Str("here is the fix"), NoJson)) }

\* dict.get(key, default)
Get(obj, key, default) == IF obj[key] = Absent THEN default ELSE obj[key]

\* str.replace(old, new) on a string of tokens
RECURSIVE replace(_, _, _)
replace(s, old, new) ==
  IF s = <<>> THEN <<>>
  ELSE <<IF Head(s) = old THEN new ELSE Head(s)>> \o replace(Tail(s), old, new)

\* BugFixResponse(...): pydantic refuses None for the required str and list fields
BugFixResponse(success, fixed_code, explanation, changes_made, prevention_tips) ==
  IF None \in {fixed_code, explanation, changes_made, prevention_tips}
  THEN Raised(Str("validation error for BugFixResponse"))
  ELSE Returned([type |-> "BugFixResponse", success |-> success,
                 fixed_code |-> fixed_code, explanation |-> explanation,
                 changes_made |-> changes_made,
                 prevention_tips |-> prevention_tips])

\* fix_bugs: the except Exception branch
fix_bugs_fallback(request, e) ==
  BugFixResponse(FALSE,
                 replace(request.code_with_bug, "erro", "corrigido"),
                 <<"Erro ao processar com LLM: ">> \o e \o <<". Aplicada correcao basica.">>,
                 <<"Correcao basica aplicada devido a erro no LLM">>,
                 <<"Verifique a conectividade com o LLM", "Revise casos de teste">>)

\* BugFixerAgent.fix_bugs
BugFixerAgent_fix_bugs(request, llm) ==
  IF ~llm.ok THEN fix_bugs_fallback(request, llm.val)
  ELSE
    LET response == llm.val
    IN CASE response.kind = "text" ->
              \* json.JSONDecodeError
              BugFixResponse(TRUE, response.text,
                             Str("Correcao realizada pelo LLM (resposta em texto livre)"),
                             Str("Analise e correcao pelo LLM"),
                             Str("Sempre teste o codigo apos correcoes"))
         [] response.kind = "array" ->
              \* result.get on a list
              fix_bugs_fallback(request, Str("'list' object has no attribute 'get'"))
         [] response.kind = "object" ->
              LET built ==
                    BugFixResponse(TRUE,
                      Get(response.obj, "fixed_code", request.code_with_bug),
                      Get(response.obj, "explanation", Str("Codigo analisado pelo LLM")),
                      Get(response.obj, "changes_made", Str("Analise realizada")),
                      Get(response.obj, "prevention_tips", Str("Revise o codigo regularmente")))
              IN IF built.ok THEN built ELSE fix_bugs_fallback(request, built.val)

\* ------------------------------------------ api/routers/code_fixer.py
NoReply == [status |-> 0, success |-> FALSE, error |-> None, message |-> None,
            body |-> None]

\* fixed_code_data[key]: only a dict can be subscripted
Subscript(obj, key) ==
  IF obj.type = "dict"
  THEN Returned(obj[key])
  ELSE Raised(<<"'", obj.type, "' object is not subscriptable">>)

\* the except Exception branch of the router
bug_fix_error(e) ==
  [NoReply EXCEPT !.status = 500, !.error = Str("BUG_FIX_ERROR"),
                  !.message = <<"Erro ao corrigir codigo: ">> \o e]

\* POST /fix/bugs: fix_bugs(request), after BugFixerAgent() and
\* bug_fixer.fix_bugs(request)
route_fix_bugs(inst, fixed_code_data) ==
  IF ~inst.constructed THEN bug_fix_error(inst.raised)
  ELSE IF ~fixed_code_data.ok THEN bug_fix_error(fixed_code_data.val)
  ELSE
    LET code == Subscript(fixed_code_data.val, "code")
    IN IF ~code.ok THEN bug_fix_error(code.val)
       ELSE [NoReply EXCEPT
               !.status = 200, !.success = TRUE,
               !.body = [type |-> "BugFixResponse", success |-> TRUE,
                         fixed_code |-> code.val,
                         explanation |-> Subscript(fixed_code_data.val, "explanation").val,
                         changes_made |-> Subscript(fixed_code_data.val, "changes").val,
                         prevention_tips |-> <<>>]]

\* ---------------------------------------------- agents/story_agent.py
\* texts are the source's without accents; a story's id (a fresh uuid) and the
\* fixed descriptions and examples of its tasks are left out
EPIC == "epic"
USER_STORY == "user_story"
TASK == "task"
BUG == "bug"
StoryType == {EPIC, USER_STORY, TASK, BUG}

Priority == {"baixa", "media", "alta", "urgente"}

\* a value of a field that pydantic validates, with its Python type
IntValue(n) == [type |-> "int", val |-> n]
StrValue(s) == [type |-> "str", val |-> s]

AcceptanceCriteria(given, when, then) ==
  [type |-> "AcceptanceCriteria", given |-> given, when |-> when, then |-> then]

DetailedTask(title) == [type |-> "DetailedTask", title |-> title]

\* GeneratedStory(...): pydantic wants DetailedTask items, a Priority value,
\* an int estimation in 1..21 and both justifications
GeneratedStory(title, description, story_type, acceptance_criteria, tasks, priority, justificativa_prioridade, estimation, justificativa_estimativa) ==
  IF /\ \A i \in DOMAIN tasks : tasks[i].type = "DetailedTask"
     /\ priority \in Priority
     /\ estimation.type = "int" /\ estimation.val \in 1..21
     /\ justificativa_prioridade # Absent
     /\ justificativa_estimativa # Absent
     /\ None \notin {title, description}
  THEN Returned([type |-> "GeneratedStory", title |-> title,
                 description |-> description, story_type |-> story_type,
                 acceptance_criteria |-> acceptance_criteria, tasks |-> tasks,
                 priority |-> priority,
                 justificativa_prioridade |-> justificativa_prioridade,
                 estimation |-> estimation.val,
                 justificativa_estimativa |-> justificativa_estimativa])
  ELSE Raised(Str("validation errors for GeneratedStory"))

\* str.lower(), word by word
RECURSIVE lower(_)
lower(s) ==
  IF s = <<>> THEN <<>>
  ELSE <<CASE Head(s) = "Ideia no Bolso" -> "ideia no bolso"
           [] Head(s) = "Login" -> "login"
           [] OTHER -> Head(s)>> \o lower(Tail(s))

IsInnovation(context) ==
  Contains(lower(context), "ideia no bolso") \/ Contains(lower(context), "inovacao")

\* context.split('.')[0].split()[:3] joined, when the first sentence has more
\* than two words
FirstThreeWords(context) ==
  IF Len(context) > 2 THEN SubSeq(context, 1, 3) ELSE Str("funcionalidade")

extract_feature_keywords(context) ==
  LET c == lower(context)
      has(w) == Contains(c, w)
  IN [main_feature |->
        IF has("login") \/ has("autenticacao") THEN Str("sistema de autenticacao")
        ELSE IF has("cadastro") \/ has("registro") THEN Str("sistema de cadastro")
        ELSE IF has("relatorio") \/ has("dashboard") THEN Str("sistema de relatorios")
        ELSE IF has("pagamento") \/ has("transacao") THEN Str("sistema de pagamentos")
        ELSE FirstThreeWords(context),
      user_type |->
        IF has("administrador") \/ has("admin") THEN Str("administrador")
        ELSE IF has("cliente") THEN Str("cliente")
        ELSE IF has("colaborador") THEN Str("colaborador")
        ELSE IF has("gerente") \/ has("gestor") THEN Str("gestor")
        ELSE Str("usuario"),
      action |->
        IF has("criar") \/ has("cadastrar") THEN Str("criar/cadastrar informacoes")
        ELSE IF has("visualizar") \/ has("consultar") THEN Str("visualizar/consultar dados")
        ELSE IF has("editar") \/ has("alterar") THEN Str("editar/alterar informacoes")
        ELSE IF has("excluir") \/ has("remover") THEN Str("excluir/remover dados")
        ELSE Str("utilizar a funcionalidade"),
      benefit |->
        IF has("seguranca") THEN Str("garantir seguranca do sistema")
        ELSE IF has("eficiencia") \/ has("produtividade")
        THEN Str("melhorar eficiencia e produtividade")
        ELSE IF has("controle") THEN Str("ter maior controle sobre as operacoes")
        ELSE Str("atender aos requisitos do sistema")]

generate_innovation_story(request) ==
  LET title ==
        IF request.story_type = EPIC THEN Str("Epico: Funcionalidade Ideia no Bolso")
        ELSE IF request.story_type = USER_STORY
        THEN Str("Como colaborador, eu quero submeter ideias inovadoras para contribuir com a inovacao do banco")
        ELSE Str("Implementar submissao de ideias no app corporativo")
      acceptance_criteria ==
        IF request.include_acceptance_criteria
        THEN << AcceptanceCriteria("Que o colaborador esta autenticado no app corporativo",
                                   "Ele acessa a funcionalidade 'Ideia no Bolso'",
                                   "Ele deve conseguir visualizar o formulario de submissao de ideias"),
                AcceptanceCriteria("Que o colaborador preencheu todos os campos obrigatorios da ideia",
                                   "Ele clica em 'Submeter Ideia'",
                                   "O sistema deve salvar a ideia com status 'em analise' e enviar confirmacao"),
                AcceptanceCriteria("Que a ideia foi submetida",
                                   "O status da ideia e alterado pelo time de inovacao",
                                   "O colaborador deve receber notificacao em tempo real sobre a mudanca") >>
        ELSE <<>>
      tasks == << DetailedTask("Criar interface de submissao de ideias"),
                  DetailedTask("Implementar sistema de categorizacao"),
                  DetailedTask("Desenvolver fluxo de validacao"),
                  DetailedTask("Criar sistema de notificacoes") >>
  IN GeneratedStory(title, Str("description of the innovation story"),
                    request.story_type, acceptance_criteria, tasks, "alta",
                    Str("Alta prioridade devido ao impacto direto na cultura de inovacao"),
                    IntValue(8),
                    Str("Complexidade alta devido a necessidade de implementar multiplas interfaces"))

generate_contextual_criteria(context) ==
  LET c == lower(context)
      has(w) == Contains(c, w)
  IN << AcceptanceCriteria("Que o usuario possui credenciais validas",
                           "Ele acessa a funcionalidade",
                           "Ele deve ser autenticado com sucesso") >>
     \o (IF has("formulario") \/ has("cadastro")
         THEN << AcceptanceCriteria("Que todos os campos obrigatorios foram preenchidos",
                                    "O usuario submete o formulario",
                                    "Os dados devem ser validados e salvos no sistema") >>
         ELSE <<>>)
     \o (IF has("notificacao") \/ has("alerta")
         THEN << AcceptanceCriteria("Que uma acao relevante foi executada",
                                    "O sistema processa a acao",
                                    "Uma notificacao deve ser enviada ao usuario apropriado") >>
         ELSE <<>>)
     \o (IF has("relatorio") \/ has("dashboard")
         THEN << AcceptanceCriteria("Que existem dados disponiveis no sistema",
                                    "O usuario solicita visualizacao de relatorios",
                                    "Os dados devem ser apresentados de forma clara e organizada") >>
         ELSE <<>>)

generate_contextual_detailed_tasks(context) ==
  LET c == lower(context)
      has(w) == Contains(c, w)
  IN << DetailedTask("Criar interface de usuario"), DetailedTask("Implementar validacoes") >>
     \o (IF has("banco de dados") \/ has("persistencia")
         THEN << DetailedTask("Modelar estruturas de dados") >> ELSE <<>>)
     \o (IF has("api") \/ has("integracao")
         THEN << DetailedTask("Desenvolver endpoints REST") >> ELSE <<>>)
     \o (IF has("autenticacao") \/ has("seguranca")
         THEN << DetailedTask("Implementar seguranca") >> ELSE <<>>)

\* _generate_single_story
generate_single_story(request) ==
  IF IsInnovation(request.context) THEN generate_innovation_story(request)
  ELSE
    LET feature_keywords == extract_feature_keywords(request.context)
        title ==
          IF request.story_type = EPIC
          THEN <<"Epico: ">> \o feature_keywords.main_feature
          ELSE IF request.story_type = USER_STORY
          THEN <<"Como ">> \o feature_keywords.user_type \o <<", eu quero ">>
               \o feature_keywords.action \o <<" para ">> \o feature_keywords.benefit
          ELSE <<"Implementar ">> \o feature_keywords.main_feature
    IN GeneratedStory(title,
                      <<"Baseado no contexto fornecido: ">> \o request.context \o <<"...">>,
                      request.story_type,
                      IF request.include_acceptance_criteria
                      THEN generate_contextual_criteria(request.context) ELSE <<>>,
                      generate_contextual_detailed_tasks(request.context),
                      "media",
                      Str("Prioridade media baseada na analise do contexto fornecido"),
                      IntValue(5),
                      Str("Estimativa baseada na complexidade media identificada no contexto"))

\* _generate_innovation_related_stories: two stories, the list or the first
\* validation error
generate_innovation_related_stories(request) ==
  LET story1 ==
        GeneratedStory(Str("Como membro do time de inovacao, eu quero validar ideias submetidas"),
                       Str("description of story 1"), USER_STORY,
                       << AcceptanceCriteria("Que existem ideias aguardando validacao",
                                             "Eu acesso o painel de validacao",
                                             "Devo visualizar todas as ideias pendentes com seus detalhes"),
                          AcceptanceCriteria("Que estou analisando uma ideia",
                                             "Eu aprovar ou reprovar a ideia",
                                             "O sistema deve atualizar o status e notificar o colaborador") >>,
                       << DetailedTask("Criar painel de validacao"),
                          DetailedTask("Implementar sistema de comentarios") >>,
                       "alta",
                       Str("Alta prioridade para garantir qualidade das ideias aprovadas"),
                       IntValue(5),
                       Str("Complexidade media considerando interface administrativa"))
      story2 ==
        GeneratedStory(Str("Como gestor de inovacao, eu quero visualizar metricas das ideias"),
                       Str("description of story 2"), USER_STORY,
                       << AcceptanceCriteria("Que existem dados de ideias no sistema",
                                             "Eu acesso o dashboard administrativo",
                                             "Devo visualizar metricas consolidadas"),
                          AcceptanceCriteria("Que quero analisar dados especificos",
                                             "Eu aplico filtros no dashboard",
                                             "Os dados devem ser atualizados em tempo real") >>,
                       << DetailedTask("Criar dashboard com visualizacoes de dados"),
                          DetailedTask("Implementar metricas de engajamento e aprovacao"),
                          DetailedTask("Desenvolver sistema de filtros"),
                          DetailedTask("Implementar funcionalidade de exportacao") >>,
                       "media",
                       Str("Prioridade media devido a importancia para gestao"),
                       IntValue(8),
                       Str("8 story points devido a complexidade de implementar dashboards"))
  IN IF ~story1.ok THEN story1
     ELSE IF ~story2.ok THEN story2
     ELSE Returned(<<story1.val, story2.val>>)

\* _generate_contextual_related_stories: tasks are plain strings, priority is
\* "Media"/"Baixa", estimation is "5 Story Points"/"3 Story Points" and the
\* justifications are not passed
generate_contextual_related_stories(request, feature_keywords) ==
  LET story1 ==
        GeneratedStory(<<"Como administrador, eu quero gerenciar ">>
                         \o feature_keywords.main_feature
                         \o <<" para manter o controle do sistema">>,
                       Str("description of story 1"), USER_STORY,
                       << AcceptanceCriteria("Que tenho permissoes de administrador",
                                             "Acesso o painel administrativo",
                                             "Devo ter acesso a todas as configuracoes do sistema") >>,
                       << StrValue("Criar interface administrativa"),
                          StrValue("Implementar controle de permissoes"),
                          StrValue("Desenvolver funcionalidades de configuracao") >>,
                       "Media", Absent, StrValue("5 Story Points"), Absent)
      story2 ==
        GeneratedStory(<<"Como ">> \o feature_keywords.user_type
                         \o <<", eu quero visualizar relatorios sobre ">>
                         \o feature_keywords.main_feature
                         \o <<" para acompanhar o desempenho">>,
                       Str("description of story 2"), USER_STORY,
                       << AcceptanceCriteria("Que existem dados no sistema",
                                             "Solicito relatorios",
                                             "Devo visualizar dados organizados e filtraveis") >>,
                       << StrValue("Implementar geracao de relatorios"),
                          StrValue("Criar visualizacoes de dados"),
                          StrValue("Desenvolver filtros e exportacao") >>,
                       "Baixa", Absent, StrValue("3 Story Points"), Absent)
  IN IF ~story1.ok THEN story1
     ELSE IF ~story2.ok THEN story2
     ELSE Returned(<<story1.val, story2.val>>)

\* _generate_related_stories
generate_related_stories(request) ==
  IF IsInnovation(request.context)
  THEN generate_innovation_related_stories(request)
  ELSE generate_contextual_related_stories(request,
                                           extract_feature_keywords(request.context))

\* _generate_stories_mock: the list of stories, or the exception that escapes
generate_stories_mock(request) ==
  LET main_story == generate_single_story(request)
  IN IF ~main_story.ok THEN main_story
     ELSE IF request.story_type = EPIC
     THEN LET related_stories == generate_related_stories(request)
          IN IF ~related_stories.ok THEN related_stories
             ELSE Returned(<<main_story.val>> \o related_stories.val)
     ELSE Returned(<<main_story.val>>)

\* a key the LLM's JSON object does not have
NoValue == [type |-> "absent", val |-> 0]

JsonGet(obj, key, default) == IF obj[key].type = "absent" THEN default ELSE obj[key]

NoStoryJson == [title |-> NoValue, priority |-> NoValue, estimation |-> NoValue]

\* what self.llm.invoke(messages) can do for the story prompt
StoryLLMOutcomes ==
  { Raised(Str("Connection error.")),
    Returned(Content("object", Str("{...}"),
                     [title |-> StrValue(Str("Como cliente, eu quero ...")),
                      priority |-> StrValue("alta"),
                      estimation |-> IntValue(8)])),
    Returned(Content("object", Str("{}"), NoStoryJson)),
    Returned(Content("object", Str("{\"estimation\": 40}"),
                     [NoStoryJson EXCEPT !.estimation = IntValue(40)])),
    Returned(Content("text", Str("here is the story"), NoStoryJson)) }

\* _generate_stories_with_llm: one story from the LLM's JSON (criteria and
\* tasks of the JSON left out), or the mock on any exception
generate_stories_with_llm(request, llm) ==
  IF ~llm.ok \/ llm.val.kind # "object" THEN generate_stories_mock(request)
  ELSE
    LET story_data == llm.val.obj
        priority_str == JsonGet(story_data, "priority", StrValue("media")).val
        generated_story ==
          GeneratedStory(JsonGet(story_data, "title", StrValue(Str("Historia Gerada"))).val,
                         <<>>, request.story_type, <<>>, <<>>,
                         IF priority_str \in Priority THEN priority_str ELSE "media",
                         Str("Prioridade atribuida com base na analise do contexto"),
                         JsonGet(story_data, "estimation", IntValue(5)),
                         Str("Estimativa baseada na complexidade identificada"))
    IN IF generated_story.ok THEN Returned(<<generated_story.val>>)
       ELSE generate_stories_mock(request)

\* StoryAgent.generate_stories
StoryAgent_generate_stories(self, request, llm) ==
  IF self.use_llm THEN generate_stories_with_llm(request, llm)
  ELSE generate_stories_mock(request)

StoryContexts ==
  { Str("Ideia no Bolso"), <<"programa", "de", "inovacao">>, Str("Login"),
    <<"sistema", "de", "gestao", "de", "ideias">>, <<"cadastro", "de", "cliente">> }

\* schema-valid StoryRequest bodies (context of at least ten characters)
StoryRequests ==
  {[kind |-> "StoryRequest", context |-> c, story_type |-> st,
    include_acceptance_criteria |-> ac] :
     c \in StoryContexts, st \in StoryType, ac \in BOOLEAN}

\* ---------------------------------------- api/routers/story_creator.py
\* POST /stories/generate
route_generate_stories(inst, stories) ==
  IF ~stories.ok
  THEN [NoReply EXCEPT !.status = 500, !.error = Str("STORY_GENERATION_ERROR"),
                       !.message = <<"Erro ao gerar historias: ">> \o stories.val]
  ELSE [NoReply EXCEPT !.status = 201, !.success = TRUE,
                       !.body = [type |-> "StoryResponse", stories |-> stories.val]]

\* --------------------------------------- agents/test_generator_agent.py
CodeLanguage == {"python", "javascript", "java"}

TestFramework == {"pytest", "unittest", "jest", "junit", "auto"}

\* a source text with what ast.parse finds in it (the classes with their
\* methods, or SyntaxError) and what the JavaScript class regex finds in it
SourceCode(text, py, js) == [text |-> text, py |-> py, js |-> js]

ClassDef(name, methods) == [name |-> name, methods |-> methods]

PyFunction ==
  SourceCode(<<"def soma(a, b):", "return a + b">>, Returned(<<>>), <<>>)

PyClass ==
  SourceCode(<<"class Conta:", "def depositar(self, valor):", "self.saldo += valor">>,
             Returned(<<ClassDef("Conta", <<"depositar">>)>>), <<>>)

JsClass ==
  SourceCode(<<"class Counter {", "increment() {", "this.n++", "}", "}">>,
             Raised(Str("SyntaxError")),
             <<ClassDef("Counter", <<"increment">>)>>)

Unparsable ==
  SourceCode(<<"def (">>, Raised(Str("SyntaxError")), <<>>)

NoSourceCode == SourceCode(None, Raised(Str("TypeError")), <<>>)

\* the two placeholder sources of _get_code_content
UploadPlaceholder ==
  SourceCode(<<"# Codigo do arquivo: ", "def exemplo_funcao():", "return 'Hello World'">>,
             Returned(<<>>), <<>>)

GitLabPlaceholder ==
  SourceCode(<<"# Codigo do repositorio GitLab", "def gitlab_function():", "return 'From GitLab'">>,
             Returned(<<>>), <<>>)

get_code_content(request) ==
  IF request.input_type = "direct" THEN request.code_content
  ELSE IF request.input_type = "file_upload"
  THEN IF Truthy(request.code_content.text) THEN request.code_content
       ELSE UploadPlaceholder
  ELSE GitLabPlaceholder

\* _analyze_code: the same mock analysis for every code
analyze_code(code_content, language) ==
  [type |-> "CodeAnalysis", complexity_score |-> 75, maintainability_index |-> 80,
   test_coverage_potential |-> 85]

agent_determine_test_framework(requested_framework, language) ==
  IF requested_framework # "auto" THEN requested_framework
  ELSE CASE language = "python" -> "pytest"
         [] language = "javascript" -> "jest"
         [] language = "java" -> "junit"
         [] OTHER -> "pytest"

get_test_dependencies(framework) ==
  CASE framework = "pytest" -> <<"pytest", "pytest-cov">>
    [] framework = "jest" -> <<"jest", "@types/jest">>
    [] framework = "junit" -> <<"junit", "mockito">>
    [] OTHER -> <<>>

\* GeneratedTest(...): pydantic wants an int coverage_estimation in 0..100
GeneratedTest(test_name, test_code, framework, coverage_estimation, dependencies, description) ==
  IF /\ coverage_estimation.type = "int"
     /\ coverage_estimation.val \in 0..100
     /\ framework \in TestFramework
     /\ None \notin {test_name, test_code, description}
  THEN Returned([type |-> "GeneratedTest", test_name |-> test_name,
                 test_code |-> test_code, framework |-> framework,
                 coverage_estimation |-> coverage_estimation.val,
                 dependencies |-> dependencies, description |-> description])
  ELSE Raised(Str("validation error for GeneratedTest"))

\* _analyze_code_structure, its class_details: the classes ast finds in Python
\* code (none when the regex fallback takes over after a SyntaxError), the
\* classes the regex finds in JavaScript, none for any other language
class_details(code_content, language) ==
  IF language = "python"
  THEN IF code_content.py.ok THEN code_content.py.val ELSE <<>>
  ELSE IF language = "javascript" THEN code_content.js
  ELSE <<>>

TestCase(name, description, coverage, scenario, target_function) ==
  [name |-> name, description |-> description, coverage |-> coverage,
   scenario |-> scenario, target_function |-> target_function]

generate_test_cases_for_method(class_name, method_name) ==
  << TestCase(<<"should_", "return_expected_value_when_", class_name, "_",
                method_name, "_called_with_valid_input">>,
              <<"Deve retornar o valor esperado quando ", class_name, ".", method_name>>,
              85, "happy_path", method_name),
     TestCase(<<"should_", "handle_edge_cases_when_", class_name, "_",
                method_name, "_receives_boundary_values">>,
              <<"Deve tratar casos extremos quando ", class_name, ".", method_name>>,
              80, "edge_cases", method_name),
     TestCase(<<"should_", "raise_error_when_", class_name, "_",
                method_name, "_receives_invalid_input">>,
              <<"Deve lancar erro apropriado quando ", class_name, ".", method_name>>,
              75, "error_handling", method_name) >>

\* _generate_specific_test_for_method: every template it chooses from starts
\* with the same two imports
generate_specific_test_for_method(class_name, method_name, test_case) ==
  <<"import pytest", "from ", "your_module", " import ", class_name, "def ">>
  \o test_case.name
  \o <<"instance = ", class_name, "result = instance.", method_name, "assert ">>

generate_test_code_fallback(test_case, framework, language, class_name) ==
  IF language = "python" /\ framework = "pytest"
  THEN generate_specific_test_for_method(class_name, test_case.target_function,
                                         test_case)
  ELSE IF language = "javascript" /\ framework = "jest"
  THEN <<"const { ", class_name, " } = require('./counter');", "describe(", "test(">>
       \o test_case.name
       \o <<"const instance = new ", class_name, "instance.",
            test_case.target_function, "expect(">>
  ELSE <<"// Teste: ">> \o test_case.name \o <<"// ">> \o test_case.description
       \o <<"// TODO: Implementar teste especifico (fallback)">>

\* the tests of one method's test cases
RECURSIVE tests_of_cases(_, _, _, _)
tests_of_cases(test_cases, framework, language, class_name) ==
  IF test_cases = <<>> THEN <<>>
  ELSE LET test_case == Head(test_cases)
       IN <<GeneratedTest(test_case.name,
                          generate_test_code_fallback(test_case, framework,
                                                      language, class_name),
                          framework, IntValue(test_case.coverage),
                          get_test_dependencies(framework),
                          test_case.description).val>>
          \o tests_of_cases(Tail(test_cases), framework, language, class_name)

RECURSIVE tests_of_methods(_, _, _, _)
tests_of_methods(methods, framework, language, class_name) ==
  IF methods = <<>> THEN <<>>
  ELSE tests_of_cases(generate_test_cases_for_method(class_name, Head(methods)),
                      framework, language, class_name)
       \o tests_of_methods(Tail(methods), framework, language, class_name)

RECURSIVE tests_of_classes(_, _, _)
tests_of_classes(classes, framework, language) ==
  IF classes = <<>> THEN <<>>
  ELSE tests_of_methods(Head(classes).methods, framework, language,
                        Head(classes).name)
       \o tests_of_classes(Tail(classes), framework, language)

\* _generate_tests_fallback: three tests for every method of every class
generate_tests_fallback(code_content, request) ==
  LET framework == agent_determine_test_framework(request.test_framework, request.language)
  IN IF code_content.text = None /\ request.language \in {"python", "javascript"}
     THEN \* ast.parse(None) and re.findall(pattern, None): not a SyntaxError
          Raised(Str("TypeError"))
     ELSE Returned(tests_of_classes(class_details(code_content, request.language),
                                    framework, request.language))

NoTestInfo == [test_name |-> NoValue, test_code |-> NoValue,
               coverage_estimation |-> NoValue]

NoTestJson == [tests |-> <<>>]

\* what self.llm.invoke(messages) can do for the test prompt; kind says what
\* json.loads makes of the content once the Markdown fence is removed
TestLLMOutcomes ==
  { Raised(Str("Connection error.")),
    Returned(Content("text", Str("I cannot write tests for this."), NoTestJson)),
    Returned(Content("object", Str("{\"tests\": [...]}"),
                     [tests |-> <<[test_name |-> StrValue(Str("test_soma")),
                                   test_code |-> StrValue(<<"def test_", "soma():", "assert ", "soma(1, 2) == 3">>),
                                   coverage_estimation |-> IntValue(85)]>>])),
    Returned(Content("object", Str("{\"tests\": [{\"coverage_estimation\": 150}]}"),
                     [tests |-> <<[NoTestInfo EXCEPT
                                     !.coverage_estimation = IntValue(150)]>>])),
    Returned(Content("object", Str("{}"), NoTestJson)),
    Returned(Content("array", Str("[]"), NoTestJson)) }

RECURSIVE tests_of_json(_, _)
tests_of_json(test_infos, framework) ==
  IF test_infos = <<>> THEN Returned(<<>>)
  ELSE LET test_info == Head(test_infos)
           test == GeneratedTest(
                     JsonGet(test_info, "test_name", StrValue(Str("test_generated"))).val,
                     JsonGet(test_info, "test_code", StrValue(Str("# Teste gerado"))).val,
                     framework,
                     JsonGet(test_info, "coverage_estimation", IntValue(80)),
                     get_test_dependencies(framework),
                     Str("Teste gerado pelo LLM"))
           rest == tests_of_json(Tail(test_infos), framework)
       IN IF ~test.ok THEN test
          ELSE IF ~rest.ok THEN rest
          ELSE Returned(<<test.val>> \o rest.val)

\* _generate_tests_with_llm: the tests of the LLM's JSON, or the exception
generate_tests_with_llm(code_content, request, llm) ==
  LET framework == agent_determine_test_framework(request.test_framework, request.language)
  IN IF ~llm.ok THEN llm
     ELSE IF llm.val.kind = "text" THEN Raised(Str("JSONDecodeError"))
     ELSE IF llm.val.kind # "object" THEN Raised(Str("AttributeError"))
     ELSE tests_of_json(llm.val.obj.tests, framework)

\* _generate_tests_for_code
generate_tests_for_code(code_content, request, llm) ==
  LET tests == generate_tests_with_llm(code_content, request, llm)
  IN IF tests.ok THEN tests ELSE generate_tests_fallback(code_content, request)

\* TestGeneratorAgent.generate_tests
TestGeneratorAgent_generate_tests(request, llm) ==
  LET code_content == get_code_content(request)
      analysis == analyze_code(code_content, request.language)
      tests == generate_tests_for_code(code_content, request, llm)
  IN IF ~tests.ok THEN tests
     ELSE Returned([tests |-> tests.val, analysis |-> analysis])

generic_refs == {"my_function", "my_module", "example_function", "your_module"}

\* _validate_test_integrity, its verdict: some test, and no non-empty test code
\* with a generic reference (the error of an empty test code is dropped by the
\* continue before errors.extend)
validate_test_integrity(tests) ==
  /\ tests # <<>>
  /\ \A i \in DOMAIN tests :
       (Truthy(tests[i].test_code) /\ strip(tests[i].test_code) # <<>>)
         => \A ref \in generic_refs : ~Contains(tests[i].test_code, ref)

\* ------------------------------------------ api/routers/code_tester.py
validate_language_framework_consistency(language, framework) ==
  framework \in (CASE language = "python" -> {"pytest", "unittest", "auto"}
                   [] language = "javascript" -> {"jest", "mocha", "auto"}
                   [] language = "java" -> {"junit", "auto"}
                   [] OTHER -> {"auto"})

\* the handler imports HTTPException inside its body, so the name is a local
\* of the handler: raising it before that import fails with UnboundLocalError,
\* in the except block too, and the server answers its plain 500
UnhandledError ==
  [NoReply EXCEPT !.status = 500, !.error = Str("Internal Server Error"),
                  !.message = Str("UnboundLocalError")]

test_generation_error(e) ==
  [NoReply EXCEPT !.status = 500, !.error = Str("TEST_GENERATION_ERROR"),
                  !.message = <<"Erro ao gerar testes: ">> \o e]

\* POST /code/tests/generate after the consistency check
route_generate_tests(inst, generated) ==
  IF ~inst.constructed \/ ~generated.ok THEN UnhandledError
  ELSE IF ~validate_test_integrity(generated.val.tests)
  THEN test_generation_error(Str("422: INVALID_TESTS_GENERATED"))
  ELSE [NoReply EXCEPT !.status = 201, !.success = TRUE,
                       !.body = [type |-> "CodeResponse",
                                 tests |-> generated.val.tests,
                                 analysis |-> generated.val.analysis]]

CodeSamples == {PyFunction, PyClass, JsClass, Unparsable}

\* ------------------------------------------------ schemas/code_schemas.py
\* the code_content of a JSON body: the key is missing, null, "" or a text
MissingContent == SourceCode(Absent, Raised(Str("TypeError")), <<>>)

EmptyContent == SourceCode(<<>>, Returned(<<>>), <<>>)

BodyContents == {MissingContent, NoSourceCode, EmptyContent, PyFunction}

\* JSON bodies of POST /code/tests/generate for direct input
CodeBodies ==
  {[kind |-> "body", input_type |-> "direct", code_content |-> c,
    file_name |-> None, language |-> l, test_framework |-> f] :
     c \in BodyContents, l \in CodeLanguage, f \in TestFramework}

\* CodeRequest.validate_code_content
validate_code_content(v, values) ==
  IF values.input_type = "direct" /\ ~Truthy(v.text)
  THEN Raised(Str("code_content e obrigatorio para entrada direta"))
  ELSE Returned(v)

\* CodeRequest(**body): a field validator runs on a value the body gives, and
\* not on the default that stands in for a missing key
CodeRequest_validate(body) ==
  IF body.code_content.text = Absent
  THEN Returned([body EXCEPT !.kind = "CodeRequest", !.code_content = NoSourceCode])
  ELSE LET v == validate_code_content(body.code_content, body)
       IN IF v.ok THEN Returned([body EXCEPT !.kind = "CodeRequest"])
          ELSE Raised(v.val)

\* the framework's answer to a body that fails validation
request_validation_error(e) ==
  [NoReply EXCEPT !.status = 422, !.error = Str("RequestValidationError"),
                  !.message = e]

\* schema-valid CodeRequest bodies
CodeRequests ==
  {[kind |-> "CodeRequest", input_type |-> "direct", code_content |-> c,
    file_name |-> None, language |-> l, test_framework |-> f] :
     c \in CodeSamples, l \in CodeLanguage, f \in TestFramework}
  \cup
  {[kind |-> "CodeRequest", input_type |-> "file_upload",
    code_content |-> NoSourceCode, file_name |-> Str("conta.py"),
    language |-> l, test_framework |-> f] :
     l \in CodeLanguage, f \in TestFramework}
  \cup
  {[kind |-> "CodeRequest", input_type |-> "gitlab_repo",
    code_content |-> NoSourceCode, file_name |-> None,
    language |-> l, test_framework |-> f] :
     l \in CodeLanguage, f \in TestFramework}
  \cup
  {CodeRequest_validate(body).val :
     body \in {b \in CodeBodies : CodeRequest_validate(b).ok}}

Consistent(req) ==
  validate_language_framework_consistency(req.language, req.test_framework)

\* ------------------------------------ src/src/services/gitlab_service.py
\* the default of get_repository_source_code's max_files
DefaultMaxFiles == 50

\* max_files of GitLabTestGenerationRequest: 1..100, default 50
MaxFilesValues == {1, 10, 50, 100}

GitLabRequests ==
  {[repo_url |-> Str("https://gitlab.com/g/p"), max_files |-> m] : m \in MaxFilesValues}

TreeItem(type, id, ext) == [type |-> type, id |-> id, ext |-> ext]

\* what the tree endpoint lists for a repository of n source files: a
\* directory, a README and the files in tree order
Tree(n) ==
  <<TreeItem("tree", 0, ""), TreeItem("blob", 0, ".md")>>
  \o [i \in 1..n |-> TreeItem("blob", i, IF i % 2 = 0 THEN ".js" ELSE ".py")]

TreeSizes == {0, 3, 12, 51, 60}

\* a repository: whether the project is reachable, how many source files it
\* has and which of them the file endpoint refuses
Repositories ==
  {[reachable |-> ok, size |-> n, unreadable |-> u] :
     ok \in BOOLEAN, n \in TreeSizes, u \in SUBSET {2, 51}}

source_extensions == {".py", ".java", ".js", ".ts", ".cs", ".go"}

filter_source_files(tree_items) ==
  SelectSeq(tree_items,
            LAMBDA item : item.type = "blob" /\ item.ext \in source_extensions)

\* source_files[:max_files] when there are more than max_files
limit_source_files(source_files, max_files) ==
  IF Len(source_files) > max_files THEN SubSeq(source_files, 1, max_files)
  ELSE source_files

\* the router hands the request's fields to the orchestrator service
ServiceCall(req) == [repo_url |-> req.repo_url, max_files |-> req.max_files]

\* the orchestrator service runs generate_tests_from_gitlab(repo_url)
OrchestratorCall(service_call) == [gitlab_url |-> service_call.repo_url]

\* GitLabHandler.process calls get_repository_source_code(gitlab_url)
RepositoryCall(orchestrator_call) ==
  [gitlab_url |-> orchestrator_call.gitlab_url, max_files |-> DefaultMaxFiles]

NoRepositoryCall == [gitlab_url |-> None, max_files |-> 0]

NoRepositoryResult == [ok |-> FALSE, called |-> FALSE, total_files |-> 0]

\* ------------------------------------------ api/services/file_service.py
MAX_FILE_SIZE == 10485760

UploadFile(filename, content) ==
  [filename |-> filename, content |-> content, pos |-> 0]

\* await file.read(): the bytes from the current position to the end
file_read(file) == SubSeq(file.content, file.pos + 1, Len(file.content))

after_read(file) == [file EXCEPT !.pos = Len(file.content)]

detect_language_by_extension(filename) ==
  LET ext == splitext_ext(filename)
  IN CASE ext = Str(".py") -> Str("python")
       [] ext = Str(".java") -> Str("java")
       [] ext = Str(".js") -> Str("javascript")
       [] OTHER -> Str("unknown")

\* validate_file, given the bytes it read
validate_file(file, content) ==
  IF Len(content) > MAX_FILE_SIZE
  THEN [valid |-> FALSE, error |-> Str("File exceeds maximum allowed size")]
  ELSE IF detect_language_by_extension(file.filename) = Str("unknown")
  THEN [valid |-> FALSE, error |-> Str("Unsupported file type")]
  ELSE [valid |-> TRUE, error |-> None]

\* os.path.join(tempfile.gettempdir(), file.filename)
temp_path(file) == <<"/tmp/">> \o file.filename

NoFile == [exists |-> FALSE, data |-> <<>>]

\* open(path, 'wb'): creates the file, or empties the one that is there
open_wb(d, path) == [d EXCEPT ![path] = [exists |-> TRUE, data |-> <<>>]]

\* out_file.write(content) from offset 0 through the handle open_wb gave; an
\* unlinked file takes the bytes out of sight
write_file(d, path, content) ==
  IF ~d[path].exists THEN d
  ELSE [d EXCEPT ![path].data =
          content \o SubSeq(@, Len(content) + 1, Len(@))]

\* open(file_path, 'r').read() of FileHandler.process
open_read(d, path) ==
  IF d[path].exists THEN Returned(d[path].data)
  ELSE Raised(Str("No such file or directory"))

unlink(d, path) == [d EXCEPT ![path] = NoFile]

\* orchestrator.generate_tests_from_file(file_path) as the service runs it:
\* file is what open_read gave, llm1 the handler's LLM call, llm2 the chain's
upload_workflow(file_path, file, llm1, llm2) ==
  LET s1 == validate_input(generate_tests_from_file(file_path))
      s2 == process_file_input(s1, file, llm1)
      s3 == generate_tests(s2, llm2)
  IN format_output(s3).final_output

\* api/routers/file_upload.py generate_tests_from_file, given what the
\* orchestrator service returned
file_response(res) ==
  IF res.success
  THEN [NoResponse EXCEPT !.status = 200, !.success = TRUE]
  ELSE IF res.error = None
  THEN [NoResponse EXCEPT !.status = 500,
          !.error = Str("1 validation error for TestGenerationErrorResponse"),
          !.error_code = Str("INTERNAL_ERROR")]
  ELSE [NoResponse EXCEPT !.status = 400, !.error = res.error,
                          !.error_code = Str("FILE_GENERATION_FAILED")]

UploadNames == {<<"a", ".py">>, <<"b", ".py">>, <<"a", ".xx">>}

UploadContents == {Str("def f(): return 1"), Str("def g(): return 2")}

UploadFiles == {UploadFile(n, c) : n \in UploadNames, c \in UploadContents}

TempPaths == {<<"/tmp/">> \o n : n \in UploadNames}

Requests == {1, 2}

BugCodes == {Str("x = 1/0"), Str("erro"), <<"x = 1/0", "erro">>, <<>>}

\* schema-valid BugFixRequest bodies
BugFixRequests ==
  {[kind |-> "BugFixRequest", code_with_bug |-> c,
    error_description |-> Str("ZeroDivisionError"), language |-> "python"] :
     c \in BugCodes}

NoRequest == [kind |-> "none"]

NoOutcome == [ok |-> FALSE, val |-> Absent, called |-> FALSE]

Outcome(r) == [ok |-> r.ok, val |-> r.val, called |-> TRUE]

\* what uuid.uuid4() and time.time() can give one invocation
Uuids == {1, 2}

Clock == {1, 2}

\* mutant: the generated id is part of what the operation answers with
Invocation_IdInResult(r, uuid4, time) ==
  [ok |-> r.ok, val |-> <<r.val, uuid4>>, id |-> uuid4, processing_time |-> time]

\* one invocation's response: what the operation computed from its request and
\* the provider's content, the ids from uuid4 and the elapsed time of the clock
Invocation(r, uuid4, time) ==
  [ok |-> r.ok, val |-> r.val, id |-> uuid4, processing_time |-> time]

NoSecond == [called |-> FALSE]

\* ---------------------------------------------------------------- state
VARIABLES
  gl_request,       \* the body of POST /from-gitlab
  gl_repo,          \* the repository behind the URL
  gl_pc,            \* where the GitLab request stands
  gl_call,          \* the arguments get_repository_source_code is called with
  gl_source_files,  \* source_files after the limit
  gl_next,          \* position of the fetch loop in source_files
  gl_files_content, \* the files whose content was fetched
  gl_result,        \* what get_repository_source_code returned or raised
  upload,           \* per request, its UploadFile
  upc,              \* per request, where its handler stands
  disk,             \* the temporary directory: path -> file
  temp_file_path,   \* per request, the handler's temp_file_path
  read_content,     \* per request, what FileHandler.process read
  upload_result,    \* per request, what the orchestrator service returned
  upload_response,  \* per request, the HTTP response
  call,      \* who started the run and with what
  state,     \* the ProcessingState flowing through the graph
  node,      \* the node about to run, or where the run stands after the graph
  trace,     \* the nodes that ran, in order
  result,    \* what the entry point returned (final_output)
  response,  \* the HTTP response of the API call
  last_llm,  \* the outcome of the most recent call to the LLM chain
  env,       \* the process environment the factory reads
  agent,     \* the agent class being constructed
  apc,       \* where the agent stands: new, constructed, failed, done
  provider,  \* what load_llm() did for the constructor
  instance,  \* the agent object
  op,        \* the generation operation that ran on the instance
  load_calls, \* how many times load_llm() was called
  request,   \* the request the agent's operation ran on
  agent_llm, \* what the LLM did in the agent's operation
  outcome,   \* what the agent's operation returned or raised
  reply,     \* the HTTP response of the agent's router
  second     \* the same operation invoked once more: both responses

wvars == <<call, state, node, trace, result, response, last_llm>>

avars == <<env, agent, apc, provider, instance, op, load_calls,
           request, agent_llm, outcome, reply, second>>

gvars == <<gl_request, gl_repo, gl_pc, gl_call, gl_source_files, gl_next,
           gl_files_content, gl_result>>

uvars == <<upload, upc, disk, temp_file_path, read_content, upload_result,
           upload_response>>

vars == <<call, state, node, trace, result, response, last_llm,
          env, agent, apc, provider, instance, op, load_calls,
          request, agent_llm, outcome, reply, second,
          gl_request, gl_repo, gl_pc, gl_call, gl_source_files, gl_next,
          gl_files_content, gl_result,
          upload, upc, disk, temp_file_path, read_content, upload_result,
          upload_response>>

\* no GitLab request in flight
GitLabIdle ==
  /\ gl_request = [repo_url |-> None, max_files |-> DefaultMaxFiles]
  /\ gl_repo = [reachable |-> FALSE, size |-> 0, unreadable |-> {}]
  /\ gl_pc = "idle"
  /\ gl_call = NoRepositoryCall
  /\ gl_source_files = <<>>
  /\ gl_next = 1
  /\ gl_files_content = <<>>
  /\ gl_result = NoRepositoryResult

\* no upload in flight
UploadIdle ==
  /\ upload = [r \in Requests |-> UploadFile(<<>>, <<>>)]
  /\ upc = [r \in Requests |-> "idle"]
  /\ disk = [path \in TempPaths |-> NoFile]
  /\ temp_file_path = [r \in Requests |-> None]
  /\ read_content = [r \in Requests |-> NotCalled]
  /\ upload_result = [r \in Requests |-> NoOutput]
  /\ upload_response = [r \in Requests |-> NoResponse]

Nodes == {"validate_input", "process_text", "process_file", "process_gitlab",
          "generate_tests", "format_output"}

Call(via, entry, it, x, y, z) ==
  [via |-> via, entry |-> entry, input_type |-> it,
   text_input |-> x, file_path |-> y, gitlab_url |-> z]

LibraryCalls ==
  {Call("library", "generate_tests_from_text", TEXT, x, None, None) : x \in TextValues}
  \cup {Call("library", "generate_tests_from_file", FILE, None, y, None) : y \in PathValues}
  \cup {Call("library", "generate_tests_from_gitlab", GITLAB, None, None, z) : z \in UrlValues}

InvokeCalls ==
  {Call("library", "invoke", it, x, y, z) :
     it \in InputType \cup {Undeclared}, x \in TextValues, y \in PathValues, z \in UrlValues}

ApiCalls ==
  {Call("api", "generate_tests_from_text", TEXT, x, None, None) : x \in TextValues}

\* the ProcessingState the call hands to app.invoke
InitialState(c) ==
  CASE c.entry = "generate_tests_from_text" -> generate_tests_from_text(c.text_input)
    [] c.entry = "generate_tests_from_file" -> generate_tests_from_file(c.file_path)
    [] c.entry = "generate_tests_from_gitlab" -> generate_tests_from_gitlab(c.gitlab_url)
    [] c.entry = "invoke" ->
         ProcessingState(c.input_type, c.text_input, c.file_path, c.gitlab_url)

Init ==
  /\ call \in LibraryCalls \cup InvokeCalls \cup ApiCalls
  /\ state = InitialState(call)
  /\ node = IF call.via = "api" THEN "request" ELSE "validate_input"
  /\ trace = <<>>
  /\ result = NoOutput
  /\ response = NoResponse
  /\ last_llm = NotCalled
  /\ env = [var \in EnvVars |-> "unset"]
  /\ agent = "none"
  /\ apc = "idle"
  /\ provider = NoProvider
  /\ instance = NoInstance
  /\ op = "none"
  /\ load_calls = 0
  /\ request = NoRequest
  /\ agent_llm = NotCalled
  /\ outcome = NoOutcome
  /\ reply = NoReply
  /\ second = NoSecond
  /\ GitLabIdle
  /\ UploadIdle

\* POST /generate/from-text: the schema answers 422 itself or the handler
\* hands the code to the orchestrator
ReceiveRequest ==
  /\ node = "request"
  /\ IF TextRequestValid(call.text_input)
     THEN node' = "validate_input" /\ UNCHANGED response
     ELSE /\ node' = "responded"
          /\ response' = [NoResponse EXCEPT !.status = 422]
  /\ UNCHANGED <<call, state, trace, result, last_llm>>
  /\ UNCHANGED <<avars, gvars, uvars>>

ValidateInput ==
  /\ node = "validate_input"
  /\ state' = validate_input(state)
  /\ node' = ConditionalEdge(route_by_input_type(state'))
  /\ trace' = Append(trace, "validate_input")
  /\ UNCHANGED <<call, result, response, last_llm>>
  /\ UNCHANGED <<avars, gvars, uvars>>

ProcessText ==
  /\ node = "process_text"
  /\ \E llm \in LLMOutcomes :
       /\ state' = process_text_input(state, llm)
       /\ last_llm' = llm
  /\ node' = Edge(node)
  /\ trace' = Append(trace, "process_text")
  /\ UNCHANGED <<call, result, response>>
  /\ UNCHANGED <<avars, gvars, uvars>>

ProcessFile ==
  /\ node = "process_file"
  /\ \E file \in FileOutcomes :
       \E llm \in IF file.ok THEN LLMOutcomes ELSE {NotCalled} :
         /\ state' = process_file_input(state, file, llm)
         /\ last_llm' = llm
  /\ node' = Edge(node)
  /\ trace' = Append(trace, "process_file")
  /\ UNCHANGED <<call, result, response>>
  /\ UNCHANGED <<avars, gvars, uvars>>

ProcessGitlab ==
  /\ node = "process_gitlab"
  /\ \E repo \in RepoOutcomes : state' = process_gitlab_input(state, repo)
  /\ node' = Edge(node)
  /\ trace' = Append(trace, "process_gitlab")
  /\ UNCHANGED <<call, result, response, last_llm>>
  /\ UNCHANGED <<avars, gvars, uvars>>

GenerateTests ==
  /\ node = "generate_tests"
  /\ \E llm \in IF Truthy(state.processed_code) THEN LLMOutcomes ELSE {NotCalled} :
       /\ state' = generate_tests(state, llm)
       /\ last_llm' = llm
  /\ node' = Edge(node)
  /\ trace' = Append(trace, "generate_tests")
  /\ UNCHANGED <<call, result, response>>
  /\ UNCHANGED <<avars, gvars, uvars>>

FormatOutput ==
  /\ node = "format_output"
  /\ state' = format_output(state)
  /\ node' = Edge(node)
  /\ trace' = Append(trace, "format_output")
  /\ UNCHANGED <<call, result, response, last_llm>>
  /\ UNCHANGED <<avars, gvars, uvars>>

\* the entry point returns result.final_output once the graph is at END
ReturnFinalOutput ==
  /\ node = "END"
  /\ result' = state.final_output
  /\ node' = "returned"
  /\ UNCHANGED <<call, state, trace, response, last_llm>>
  /\ UNCHANGED <<avars, gvars, uvars>>

\* the router answers from what OrchestratorService handed back
Respond ==
  /\ node = "returned"
  /\ call.via = "api"
  /\ response' = generate_from_text(OrchestratorService_generate_from_text(Returned(result)))
  /\ node' = "responded"
  /\ UNCHANGED <<call, state, trace, result, last_llm>>
  /\ UNCHANGED <<avars, gvars, uvars>>

Next ==
  \/ ReceiveRequest
  \/ ValidateInput
  \/ ProcessText
  \/ ProcessFile
  \/ ProcessGitlab
  \/ GenerateTests
  \/ FormatOutput
  \/ ReturnFinalOutput
  \/ Respond

Spec == Init /\ [][Next]_vars

\* app.invoke runs the graph synchronously to END and the router answers:
\* no step that can be taken is put off for ever
FairSpec == Spec /\ WF_vars(Next)

Done == node \in {"returned", "responded"} /\ (call.via = "api" => node = "responded")

\* ----------------------------------------------- constructing an agent
AgentInit ==
  /\ env \in Environments
  /\ agent \in Agents
  /\ apc = "new"
  /\ provider = NoProvider
  /\ instance = NoInstance
  /\ op = "none"
  /\ load_calls = 0
  /\ request = NoRequest
  /\ agent_llm = NotCalled
  /\ outcome = NoOutcome
  /\ reply = NoReply
  /\ second = NoSecond
  /\ call = Call("none", "none", Undeclared, None, None, None)
  /\ state = ProcessingState(Undeclared, None, None, None)
  /\ node = "idle"
  /\ trace = <<>>
  /\ result = NoOutput
  /\ response = NoResponse
  /\ last_llm = NotCalled
  /\ GitLabIdle
  /\ UploadIdle

ConstructStoryAgent ==
  /\ apc = "new"
  /\ agent = "StoryAgent"
  /\ \E azure_ctor \in ClientCtorOutcomes, openai_ctor \in ClientCtorOutcomes :
       /\ provider' = initialize_llm_provider(env, azure_ctor, openai_ctor)
       /\ instance' = StoryAgent_init(provider')
  /\ apc' = IF instance'.constructed THEN "constructed" ELSE "failed"
  /\ load_calls' = load_calls + 1
  /\ UNCHANGED <<env, agent, op, request, agent_llm, outcome, reply>>
  /\ UNCHANGED <<second, wvars, gvars, uvars>>

ConstructTestGeneratorAgent ==
  /\ apc = "new"
  /\ agent = "TestGeneratorAgent"
  /\ \E azure_ctor \in ClientCtorOutcomes, openai_ctor \in ClientCtorOutcomes :
       /\ provider' = initialize_llm_provider(env, azure_ctor, openai_ctor)
       /\ instance' = TestGeneratorAgent_init(provider')
  /\ apc' = IF instance'.constructed THEN "constructed" ELSE "failed"
  /\ load_calls' = load_calls + 1
  /\ UNCHANGED <<env, agent, op, request, agent_llm, outcome, reply>>
  /\ UNCHANGED <<second, wvars, gvars, uvars>>

ConstructBugFixerAgent ==
  /\ apc = "new"
  /\ agent = "BugFixerAgent"
  /\ \E azure_ctor \in ClientCtorOutcomes, openai_ctor \in ClientCtorOutcomes :
       /\ provider' = initialize_llm_provider(env, azure_ctor, openai_ctor)
       /\ instance' = BugFixerAgent_init(provider')
  /\ apc' = IF instance'.constructed THEN "constructed" ELSE "failed"
  /\ load_calls' = load_calls + 1
  /\ UNCHANGED <<env, agent, op, request, agent_llm, outcome, reply>>
  /\ UNCHANGED <<second, wvars, gvars, uvars>>

\* story_agent.generate_stories(request) on the instance the router built
GenerateStories ==
  /\ apc = "constructed"
  /\ agent = "StoryAgent"
  /\ op' = generate_stories(instance)
  /\ apc' = "done"
  /\ \E req \in StoryRequests :
       \E llm \in IF instance.use_llm THEN StoryLLMOutcomes ELSE {NotCalled} :
         /\ request' = req
         /\ agent_llm' = llm
         /\ outcome' = Outcome(StoryAgent_generate_stories(instance, req, llm))
  /\ UNCHANGED <<env, agent, provider, instance, load_calls, reply>>
  /\ UNCHANGED <<second, wvars, gvars, uvars>>

\* POST /stories/generate answers from what generate_stories returned or raised
RespondStories ==
  /\ agent = "StoryAgent"
  /\ apc = "done"
  /\ reply' = route_generate_stories(instance, outcome)
  /\ apc' = "responded"
  /\ UNCHANGED <<env, agent, provider, instance, op, load_calls,
                 request, agent_llm, outcome>>
  /\ UNCHANGED <<second, wvars, gvars, uvars>>

\* test_agent.generate_tests(request) on the instance the router built
AgentGenerateTests ==
  /\ apc = "constructed"
  /\ agent = "TestGeneratorAgent"
  /\ op' = "generate_tests"
  /\ apc' = "done"
  /\ \E req \in CodeRequests, llm \in TestLLMOutcomes :
       /\ Consistent(req)
       /\ request' = req
       /\ agent_llm' = llm
       /\ outcome' = Outcome(TestGeneratorAgent_generate_tests(req, llm))
  /\ UNCHANGED <<env, agent, provider, instance, load_calls, reply>>
  /\ UNCHANGED <<second, wvars, gvars, uvars>>

\* POST /code/tests/generate with a framework that does not fit the language:
\* the handler stops before it builds the agent
RejectInconsistent ==
  /\ apc = "new"
  /\ agent = "TestGeneratorAgent"
  /\ \E req \in CodeRequests :
       /\ ~Consistent(req)
       /\ request' = req
  /\ reply' = UnhandledError
  /\ apc' = "responded"
  /\ UNCHANGED <<env, agent, provider, instance, op, load_calls,
                 agent_llm, outcome>>
  /\ UNCHANGED <<second, wvars, gvars, uvars>>

\* POST /code/tests/generate with a body that CodeRequest rejects: the
\* handler is not entered
RejectInvalid ==
  /\ apc = "new"
  /\ agent = "TestGeneratorAgent"
  /\ \E body \in CodeBodies :
       /\ ~CodeRequest_validate(body).ok
       /\ request' = body
       /\ reply' = request_validation_error(CodeRequest_validate(body).val)
  /\ apc' = "responded"
  /\ UNCHANGED <<env, agent, provider, instance, op, load_calls,
                 agent_llm, outcome>>
  /\ UNCHANGED <<second, wvars, gvars, uvars>>

\* POST /code/tests/generate answers: from the tests and their integrity
\* check, or from the exception of the constructor
RespondGenerateTests ==
  /\ agent = "TestGeneratorAgent"
  /\ apc \in {"done", "failed"}
  /\ reply' = route_generate_tests(instance, outcome)
  /\ apc' = "responded"
  /\ UNCHANGED <<env, agent, provider, instance, op, load_calls,
                 request, agent_llm, outcome>>
  /\ UNCHANGED <<second, wvars, gvars, uvars>>

\* bug_fixer.fix_bugs(request) on the instance the router built
FixBugs ==
  /\ apc = "constructed"
  /\ agent = "BugFixerAgent"
  /\ op' = "fix_bugs"
  /\ apc' = "done"
  /\ \E req \in BugFixRequests, llm \in BugFixLLMOutcomes :
       /\ request' = req
       /\ agent_llm' = llm
       /\ outcome' = Outcome(BugFixerAgent_fix_bugs(req, llm))
  /\ UNCHANGED <<env, agent, provider, instance, load_calls, reply>>
  /\ UNCHANGED <<second, wvars, gvars, uvars>>

\* POST /fix/bugs answers: from the operation's result, or from the exception
\* of the constructor
RespondFixBugs ==
  /\ agent = "BugFixerAgent"
  /\ apc \in {"done", "failed"}
  /\ reply' = route_fix_bugs(instance, outcome)
  /\ apc' = "responded"
  /\ UNCHANGED <<env, agent, provider, instance, op, load_calls,
                 request, agent_llm, outcome>>
  /\ UNCHANGED <<second, wvars, gvars, uvars>>

\* ============================================ one operation, invoked twice
\* the credentials are all there or all missing
RepeatEnvironments ==
  {e \in Environments : \E s \in {"set", "unset"} : \A var \in EnvVars : e[var] = s}

RepeatInit ==
  /\ AgentInit
  /\ env \in RepeatEnvironments

\* generate_stories(request) once more: same instance, same request, same
\* content from the provider
RepeatGenerateStories ==
  /\ apc = "done"
  /\ agent = "StoryAgent"
  /\ ~second.called
  /\ \E id1 \in Uuids, id2 \in Uuids, t1 \in Clock, t2 \in Clock :
       second' = [called |-> TRUE,
                  first |-> Invocation(outcome, id1, t1),
                  again |-> Invocation(StoryAgent_generate_stories(instance, request, agent_llm), id2, t2)]
  /\ UNCHANGED <<env, agent, apc, provider, instance, op, load_calls,
                 request, agent_llm, outcome, reply>>
  /\ UNCHANGED <<wvars, gvars, uvars>>

\* generate_tests(request) once more
RepeatGenerateTests ==
  /\ apc = "done"
  /\ agent = "TestGeneratorAgent"
  /\ ~second.called
  /\ \E id1 \in Uuids, id2 \in Uuids, t1 \in Clock, t2 \in Clock :
       second' = [called |-> TRUE,
                  first |-> Invocation(outcome, id1, t1),
                  again |-> Invocation(TestGeneratorAgent_generate_tests(request, agent_llm), id2, t2)]
  /\ UNCHANGED <<env, agent, apc, provider, instance, op, load_calls,
                 request, agent_llm, outcome, reply>>
  /\ UNCHANGED <<wvars, gvars, uvars>>

\* fix_bugs(request) once more
RepeatFixBugs ==
  /\ apc = "done"
  /\ agent = "BugFixerAgent"
  /\ ~second.called
  /\ \E id1 \in Uuids, id2 \in Uuids, t1 \in Clock, t2 \in Clock :
       second' = [called |-> TRUE,
                  first |-> Invocation(outcome, id1, t1),
                  again |-> Invocation(BugFixerAgent_fix_bugs(request, agent_llm), id2, t2)]
  /\ UNCHANGED <<env, agent, apc, provider, instance, op, load_calls,
                 request, agent_llm, outcome, reply>>
  /\ UNCHANGED <<wvars, gvars, uvars>>

RepeatNext ==
  \/ ConstructStoryAgent
  \/ ConstructTestGeneratorAgent
  \/ ConstructBugFixerAgent
  \/ GenerateStories
  \/ AgentGenerateTests
  \/ FixBugs
  \/ RepeatGenerateStories
  \/ RepeatGenerateTests
  \/ RepeatFixBugs

RepeatSpec == RepeatInit /\ [][RepeatNext]_vars

AgentNext ==
  \/ ConstructStoryAgent
  \/ ConstructTestGeneratorAgent
  \/ ConstructBugFixerAgent
  \/ GenerateStories
  \/ AgentGenerateTests
  \/ FixBugs
  \/ RespondFixBugs
  \/ RespondStories
  \/ RejectInconsistent
  \/ RejectInvalid
  \/ RespondGenerateTests

AgentSpec == AgentInit /\ [][AgentNext]_vars

\* ===================================================== a GitLab request
\* no workflow run and no agent
WorkflowIdle ==
  /\ call = Call("none", "none", Undeclared, None, None, None)
  /\ state = ProcessingState(Undeclared, None, None, None)
  /\ node = "idle"
  /\ trace = <<>>
  /\ result = NoOutput
  /\ response = NoResponse
  /\ last_llm = NotCalled

AgentIdle ==
  /\ env = [var \in EnvVars |-> "unset"]
  /\ agent = "none"
  /\ apc = "idle"
  /\ provider = NoProvider
  /\ instance = NoInstance
  /\ op = "none"
  /\ load_calls = 0
  /\ request = NoRequest
  /\ agent_llm = NotCalled
  /\ outcome = NoOutcome
  /\ reply = NoReply
  /\ second = NoSecond

GitLabInit ==
  /\ gl_request \in GitLabRequests
  /\ gl_repo \in Repositories
  /\ gl_pc = "request"
  /\ gl_call = NoRepositoryCall
  /\ gl_source_files = <<>>
  /\ gl_next = 1
  /\ gl_files_content = <<>>
  /\ gl_result = NoRepositoryResult
  /\ WorkflowIdle
  /\ AgentIdle
  /\ UploadIdle

\* POST /from-gitlab up to the call of get_repository_source_code: router,
\* orchestrator service, workflow, GitLabHandler.process
CallRepository ==
  /\ gl_pc = "request"
  /\ gl_call' = RepositoryCall(OrchestratorCall(ServiceCall(gl_request)))
  /\ gl_pc' = "tree"
  /\ UNCHANGED <<gl_request, gl_repo, gl_source_files, gl_next,
                 gl_files_content, gl_result>>
  /\ UNCHANGED <<wvars, avars, uvars>>

\* project details and tree: the request fails, or the source files of the
\* tree are kept up to max_files
GetRepositoryTree ==
  /\ gl_pc = "tree"
  /\ IF ~gl_repo.reachable
     THEN /\ gl_result' = [ok |-> FALSE, called |-> TRUE, total_files |-> 0]
          /\ gl_pc' = "returned"
          /\ UNCHANGED gl_source_files
     ELSE /\ gl_source_files' =
               limit_source_files(filter_source_files(Tree(gl_repo.size)),
                                  gl_call.max_files)
          /\ gl_pc' = "files"
          /\ UNCHANGED gl_result
  /\ UNCHANGED <<gl_request, gl_repo, gl_call, gl_next, gl_files_content>>
  /\ UNCHANGED <<wvars, avars, uvars>>

\* one turn of the loop over source_files: the content is fetched and kept,
\* or the fetch fails and the file is skipped
GetFileContent ==
  /\ gl_pc = "files"
  /\ gl_next <= Len(gl_source_files)
  /\ gl_files_content' =
       IF gl_source_files[gl_next].id \in gl_repo.unreadable
       THEN gl_files_content
       ELSE Append(gl_files_content, gl_source_files[gl_next])
  /\ gl_next' = gl_next + 1
  /\ UNCHANGED <<gl_request, gl_repo, gl_pc, gl_call, gl_source_files, gl_result>>
  /\ UNCHANGED <<wvars, avars, uvars>>

\* after the loop: the result with total_files = len(files_content)
ReturnRepository ==
  /\ gl_pc = "files"
  /\ gl_next > Len(gl_source_files)
  /\ gl_result' = [ok |-> TRUE, called |-> TRUE,
                   total_files |-> Len(gl_files_content)]
  /\ gl_pc' = "returned"
  /\ UNCHANGED <<gl_request, gl_repo, gl_call, gl_source_files, gl_next,
                 gl_files_content>>
  /\ UNCHANGED <<wvars, avars, uvars>>

GitLabNext ==
  \/ CallRepository
  \/ GetRepositoryTree
  \/ GetFileContent
  \/ ReturnRepository

GitLabSpec == GitLabInit /\ [][GitLabNext]_vars

\* ============================================== two file-upload requests
UploadInit ==
  /\ upload \in [Requests -> UploadFiles]
  /\ upc = [r \in Requests |-> "start"]
  /\ disk = [path \in TempPaths |-> NoFile]
  /\ temp_file_path = [r \in Requests |-> None]
  /\ read_content = [r \in Requests |-> NotCalled]
  /\ upload_result = [r \in Requests |-> NoOutput]
  /\ upload_response = [r \in Requests |-> NoResponse]
  /\ WorkflowIdle
  /\ AgentIdle
  /\ GitLabIdle

\* validate_file reads the upload; an invalid file is answered 400 at once
\* (temp_file_path is None, the finally block has nothing to remove)
ValidateFile(r) ==
  /\ upc[r] = "start"
  /\ LET validation_result == validate_file(upload[r], file_read(upload[r]))
     IN IF validation_result.valid
        THEN /\ upc' = [upc EXCEPT ![r] = "validated"]
             /\ UNCHANGED upload_response
        ELSE /\ upc' = [upc EXCEPT ![r] = "responded"]
             /\ upload_response' =
                  [upload_response EXCEPT ![r] =
                     [NoResponse EXCEPT !.status = 400,
                                        !.error = validation_result.error,
                                        !.error_code = Str("FILE_VALIDATION_FAILED")]]
  /\ upload' = [upload EXCEPT ![r] = after_read(@)]
  /\ UNCHANGED <<disk, temp_file_path, read_content, upload_result>>
  /\ UNCHANGED <<wvars, avars, gvars>>

\* save_temp_file: aiofiles.open(temp_file_path, 'wb')
OpenTempFile(r) ==
  /\ upc[r] = "validated"
  /\ disk' = open_wb(disk, temp_path(upload[r]))
  /\ upc' = [upc EXCEPT ![r] = "opened"]
  /\ UNCHANGED <<upload, temp_file_path, read_content, upload_result,
                 upload_response>>
  /\ UNCHANGED <<wvars, avars, gvars>>

\* save_temp_file: file.read(), out_file.write(content), return the path
WriteTempFile(r) ==
  /\ upc[r] = "opened"
  /\ disk' = write_file(disk, temp_path(upload[r]), file_read(upload[r]))
  /\ upload' = [upload EXCEPT ![r] = after_read(@)]
  /\ temp_file_path' = [temp_file_path EXCEPT ![r] = temp_path(upload[r])]
  /\ upc' = [upc EXCEPT ![r] = "saved"]
  /\ UNCHANGED <<read_content, upload_result, upload_response>>
  /\ UNCHANGED <<wvars, avars, gvars>>

\* generate_from_file: the workflow runs in the service's thread pool and
\* FileHandler.process opens temp_file_path
RunWorkflow(r) ==
  /\ upc[r] = "saved"
  /\ LET file == open_read(disk, temp_file_path[r])
     IN /\ read_content' = [read_content EXCEPT ![r] = file]
        /\ \E llm1 \in IF file.ok THEN LLMOutcomes ELSE {NotCalled} :
             LET processed == process_file_input(
                                validate_input(generate_tests_from_file(temp_file_path[r])),
                                file, llm1).processed_code
             IN \E llm2 \in IF Truthy(processed) THEN LLMOutcomes ELSE {NotCalled} :
                  upload_result' =
                    [upload_result EXCEPT ![r] =
                       upload_workflow(temp_file_path[r], file, llm1, llm2)]
  /\ upc' = [upc EXCEPT ![r] = "processed"]
  /\ UNCHANGED <<upload, disk, temp_file_path, upload_response>>
  /\ UNCHANGED <<wvars, avars, gvars>>

\* the response is built and the finally block removes temp_file_path if it
\* exists
CleanUp(r) ==
  /\ upc[r] = "processed"
  /\ upload_response' =
       [upload_response EXCEPT ![r] = file_response(upload_result[r])]
  /\ disk' = IF disk[temp_file_path[r]].exists
             THEN unlink(disk, temp_file_path[r]) ELSE disk
  /\ upc' = [upc EXCEPT ![r] = "responded"]
  /\ UNCHANGED <<upload, temp_file_path, read_content, upload_result>>
  /\ UNCHANGED <<wvars, avars, gvars>>

UploadNext ==
  \/ \E r \in Requests : ValidateFile(r)
  \/ \E r \in Requests : OpenTempFile(r)
  \/ \E r \in Requests : WriteTempFile(r)
  \/ \E r \in Requests : RunWorkflow(r)
  \/ \E r \in Requests : CleanUp(r)

UploadSpec == UploadInit /\ [][UploadNext]_vars

\* =============================================================== claims
ProcessingNodes == {"process_text", "process_file", "process_gitlab"}

SuccessPaths ==
  {<<"validate_input", p, "generate_tests", "format_output">> : p \in ProcessingNodes}

ErrorPath == <<"validate_input">>

IsPrefix(a, b) == Len(a) <= Len(b) /\ SubSeq(b, 1, Len(a)) = a

Ran(n) == \E i \in DOMAIN trace : trace[i] = n

TimesRan(n) == Cardinality({i \in DOMAIN trace : trace[i] = n})

\* the graph has reached END in a run that entered it
AtEnd == node \in {"END", "returned", "responded"} /\ trace # <<>>

MatchingField(s) ==
  CASE s.input_type = TEXT -> s.text_input
    [] s.input_type = FILE -> s.file_path
    [] s.input_type = GITLAB -> s.gitlab_url

Populated(s) ==
  {f \in {"text_input", "file_path", "gitlab_url"} : Truthy(s[f])}

\* a processing node or generate_tests is about to run or has run
Downstream == node \in ProcessingNodes \cup {"generate_tests"} \/ Len(trace) >= 2

\* ------------------------------------------------------------------- C1
C1_Paths ==
  /\ \E path \in SuccessPaths \cup {ErrorPath} : IsPrefix(trace, path)
  /\ \A n \in Nodes : TimesRan(n) <= 1
  /\ AtEnd => /\ trace \in SuccessPaths \cup {ErrorPath}
              /\ trace = ErrorPath <=> ~state.is_valid

\* C1: every run of the workflow reaches END and its caller gets an answer;
\* the nodes that ran are validate_input alone (validation failed) or
\* validate_input, one processing node, generate_tests, format_output, in that
\* order; no node runs twice.
C1_RunShape == [](C1_Paths) /\ <>(node \in {"returned", "responded"})

C1_Witness ==
  /\ node = "returned"
  /\ trace = <<"validate_input", "process_file", "generate_tests", "format_output">>

\* ------------------------------------------------------------------- C2
\* C2 as stated: for a declared input type, validate_input sets is_valid
\* exactly when the field matching the type is non-empty, and records an
\* error otherwise.
C2_Original ==
  (trace # <<>> /\ state.input_type \in InputType) =>
    /\ state.is_valid <=> Truthy(MatchingField(state))
    /\ ~state.is_valid => Truthy(state.error_message)

NonBlank(s) == \E i \in DOMAIN s : s[i] # " "

\* C2 amended: for a declared input type, validate_input sets is_valid exactly
\* when the field matching the type is non-empty and, for TEXT, holds more
\* than whitespace; otherwise is_valid is false, the error message is stored
\* in the state and logged in the messages.
C2_Validate ==
  (trace # <<>> /\ state.input_type \in InputType) =>
    /\ state.is_valid <=>
         /\ Truthy(MatchingField(state))
         /\ state.input_type = TEXT => NonBlank(state.text_input)
    /\ ~state.is_valid =>
         /\ Truthy(state.error_message)
         /\ state.messages = <<(<<"Validation error: ">> \o state.error_message)>>

C2_Witness ==
  /\ trace = <<"validate_input">>
  /\ state.input_type = TEXT
  /\ state.text_input = <<" ">>
  /\ ~state.is_valid
  /\ state.error_message = Str("Empty text input provided")

\* ------------------------------------------------------------------- C3
ExpectedProcessingNode(it) ==
  CASE it = TEXT -> "process_text"
    [] it = FILE -> "process_file"
    [] it = GITLAB -> "process_gitlab"

\* C3: once validation has passed, the node after validate_input is the
\* processing node of state.input_type, whatever the other fields hold, and
\* no other processing node runs in the run.
C3_Routing ==
  /\ (trace # <<>> /\ state.is_valid) =>
       /\ state.input_type \in InputType
       /\ IF Len(trace) = 1 THEN node = ExpectedProcessingNode(state.input_type)
          ELSE trace[2] = ExpectedProcessingNode(state.input_type)
  /\ \A i \in DOMAIN trace :
       trace[i] \in ProcessingNodes =>
         i = 2 /\ trace[i] = ExpectedProcessingNode(state.input_type)

C3_Witness ==
  /\ call.entry = "invoke"
  /\ state.input_type = TEXT
  /\ Truthy(state.file_path)
  /\ Truthy(state.gitlab_url)
  /\ Len(trace) >= 2
  /\ trace[2] = "process_text"

\* ------------------------------------------------------------------- C4
\* C4: once format_output has run, final_output is a success payload carrying
\* the generated tests, framework, detected language and coverage notes exactly
\* when generated_tests is set and non-empty, and otherwise a failure payload
\* whose error is the state's error_message; format_output ran last and the
\* graph is at END.
C4_FormatOutput ==
  Ran("format_output") =>
    LET o == state.final_output
    IN /\ o.present
       /\ o.success <=> Truthy(state.generated_tests)
       /\ o.success =>
            /\ o.generated_tests = state.generated_tests
            /\ o.test_framework = state.test_framework
            /\ o.detected_language = state.detected_language
            /\ o.coverage_notes = state.coverage_notes
       /\ ~o.success => o.error = state.error_message
       /\ trace[Len(trace)] = "format_output"
       /\ AtEnd

C4_Witness ==
  /\ Ran("format_output")
  /\ state.final_output.success
  /\ state.final_output.generated_tests = Str("tests")
  /\ state.final_output.test_framework = Str("pytest")

\* ------------------------------------------------------------------- C5
\* generate_tests ran and raised inside its try block
GenerateRaised ==
  /\ Ran("generate_tests")
  /\ ~Truthy(state.processed_code) \/ ~last_llm.ok

\* C5: when generate_tests raises (no processed code, or the LLM call fails)
\* the error message is stored in the state, generated_tests stays unset, the
\* node has run once, the next node is format_output, and the payload it
\* builds has success = false with that error.
C5_GenerateFails ==
  GenerateRaised =>
    /\ state.generated_tests = None
    /\ state.error_message =
         IF ~Truthy(state.processed_code)
         THEN Str("No processed code available for test generation")
         ELSE last_llm.val
    /\ TimesRan("generate_tests") = 1
    /\ node = "format_output" \/ Ran("format_output")
    /\ Ran("format_output") =>
         /\ ~state.final_output.success
         /\ state.final_output.error = state.error_message

C5_Witness ==
  /\ GenerateRaised
  /\ Truthy(state.processed_code)
  /\ Ran("format_output")
  /\ state.final_output.present
  /\ ~state.final_output.success
  /\ state.final_output.error = Str("LLM call failed")

\* ------------------------------------------------------------------- C6
\* C6 as stated: when validation fails, the entry point's caller gets a
\* payload with success = false carrying the validation error, and an API
\* caller a 4xx response.
C6_Claim ==
  (Done /\ call.entry # "invoke" /\ trace # <<>> /\ ~state.is_valid) =>
    /\ result.present
    /\ ~result.success
    /\ result.error = state.error_message
    /\ call.via = "api" => response.status \in 400..499

\* ------------------------------------------------------------------- C7
\* C7 as stated: whenever a processing node or generate_tests runs, exactly
\* one of text_input, file_path, gitlab_url is populated.
C7_Original == Downstream => Cardinality(Populated(state)) = 1

\* C7 amended: whenever a processing node or generate_tests runs, the field
\* matching input_type is populated (a state with none of the three populated
\* never gets there); validate_input does not look at the other two fields,
\* and only in a run started by generate_tests_from_text, _from_file or
\* _from_gitlab, which fill one field, is exactly one of them populated.
C7_OneInput ==
  Downstream =>
    /\ state.input_type \in InputType
    /\ Truthy(MatchingField(state))
    /\ call.entry # "invoke" => Cardinality(Populated(state)) = 1

C7_Witness ==
  /\ call.entry = "invoke"
  /\ Ran("process_file")
  /\ Populated(state) = {"text_input", "file_path"}

\* the first credential set: key, deployment, version and an endpoint
FirstSetComplete ==
  /\ \A var \in {"AZURE_OPENAI_API_KEY", "AZURE_OPENAI_DEPLOYMENT_NAME",
                 "AZURE_OPENAI_API_VERSION"} : env[var] = "set"
  /\ \E var \in {"AZURE_OPENAI_ENDPOINT", "AZURE_OPENAI_API_BASE"} : env[var] = "set"

\* the second credential set: key and model name
SecondSetComplete == \A var \in {"OPENAI_API_KEY", "OPENAI_MODEL_NAME"} : env[var] = "set"

IsAzureClient(c) ==
  /\ c.kind = Str("AzureChatOpenAI")
  /\ c.api_key = <<"$", "AZURE_OPENAI_API_KEY">>
  /\ c.azure_endpoint \in {<<"$", "AZURE_OPENAI_ENDPOINT">>, <<"$", "AZURE_OPENAI_API_BASE">>}
  /\ c.deployment_name = <<"$", "AZURE_OPENAI_DEPLOYMENT_NAME">>
  /\ c.api_version = <<"$", "AZURE_OPENAI_API_VERSION">>

IsOpenAIClient(c) ==
  /\ c.kind = Str("ChatOpenAI")
  /\ c.api_key = <<"$", "OPENAI_API_KEY">>
  /\ c.model = <<"$", "OPENAI_MODEL_NAME">>

Attempted(p) == \E i \in DOMAIN provider.attempted : provider.attempted[i].provider = p

Failed(p) ==
  \E i \in DOMAIN provider.attempted :
    provider.attempted[i].provider = p /\ ~provider.attempted[i].ok

\* C8 as stated: with the first set complete the returned client is the Azure
\* client whatever the second set is; with the first set incomplete and the
\* second complete the returned client is the second set's and the first
\* client's construction is never attempted.
C8_Original ==
  provider.called =>
    /\ FirstSetComplete => provider.ok /\ IsAzureClient(provider.client)
    /\ (~FirstSetComplete /\ SecondSetComplete) =>
         provider.ok /\ IsOpenAIClient(provider.client) /\ ~Attempted("azure")

\* C8: the first credential set is preferred as long as its client can be
\* built. With the first set complete its client is constructed first and,
\* if that succeeds, returned whatever the second set is, the second never
\* being attempted; if that construction fails the selection falls through to
\* the second set. With the first set incomplete and the second complete the
\* first client's construction is never attempted, and the second set's
\* client is returned if its construction succeeds; if it fails no client is
\* returned.
C8_Selection ==
  provider.called =>
    /\ FirstSetComplete =>
         /\ provider.attempted[1].provider = "azure"
         /\ ~Failed("azure") =>
              /\ provider.ok /\ IsAzureClient(provider.client)
              /\ ~Attempted("openai")
         /\ Failed("azure") =>
              /\ SecondSetComplete <=> Attempted("openai")
              /\ provider.ok <=> (SecondSetComplete /\ ~Failed("openai"))
              /\ provider.ok => IsOpenAIClient(provider.client)
    /\ (~FirstSetComplete /\ SecondSetComplete) =>
         /\ ~Attempted("azure")
         /\ Attempted("openai")
         /\ provider.ok <=> ~Failed("openai")
         /\ provider.ok => IsOpenAIClient(provider.client)

C8_Witness ==
  /\ provider.called
  /\ ~FirstSetComplete /\ SecondSetComplete
  /\ provider.ok /\ IsOpenAIClient(provider.client)

Tokens(s) == {s[i] : i \in DOMAIN s}

\* the variables of both sets that are missing from the environment
MissingVariables == {var \in EnvVars : env[var] # "set"}

\* the variable names an error message lists
ListedVariables(msg) == Tokens(msg) \cap EnvVars

RequiredVariablesListed ==
  {"AZURE_OPENAI_API_KEY", "AZURE_OPENAI_API_BASE", "AZURE_OPENAI_DEPLOYMENT_NAME",
   "AZURE_OPENAI_API_VERSION", "OPENAI_API_KEY", "OPENAI_MODEL_NAME"}

\* C9 as stated: with neither set complete the selection fails with
\* LLMInitializationError and the error carries the list of the variables
\* that are missing (a variable that is set is not listed as missing; the
\* endpoint counts as listed under either of its two names).
C9_Original ==
  (provider.called /\ ~FirstSetComplete /\ ~SecondSetComplete) =>
    /\ ~provider.ok /\ provider.error # None
    /\ ListedVariables(provider.error) \subseteq MissingVariables

\* C9: with neither credential set complete the selection returns no client
\* and fails with LLMInitializationError without constructing any client; the
\* error names every variable the two sets require (the endpoint as
\* AZURE_OPENAI_API_BASE), whether or not it is set, not the variables found
\* missing; load_llm() is called once and not again.
C9_NoProvider ==
  (provider.called /\ ~FirstSetComplete /\ ~SecondSetComplete) =>
    /\ ~provider.ok
    /\ provider.client = NoClient
    /\ provider.attempted = <<>>
    /\ provider.error # None
    /\ provider.error[1] = "Nenhum provedor LLM pode ser inicializado."
    /\ provider.error[2] = "Nenhuma credencial de LLM configurada no ambiente."
    /\ ListedVariables(provider.error) = RequiredVariablesListed
    /\ load_calls = 1

C9_Witness ==
  /\ provider.called /\ ~FirstSetComplete /\ ~SecondSetComplete
  /\ ~provider.ok
  /\ env["AZURE_OPENAI_API_KEY"] = "set"
  /\ env["OPENAI_MODEL_NAME"] = "empty"

\* C10 as stated: for each of the three agents, construction with no usable
\* provider fails with the provider error, no instance is left in a degraded
\* or mock mode and no generation operation runs.
C10_Original ==
  (provider.called /\ ~provider.ok) =>
    /\ ~instance.constructed
    /\ instance.raised = provider.error
    /\ op = "none"

\* C10: with no usable provider, constructing TestGeneratorAgent or
\* BugFixerAgent fails at once with the provider error, leaves no instance and
\* none of their operations runs; constructing StoryAgent succeeds with an
\* instance in mock mode (no LLM, use_llm false), and generate_stories on it
\* runs the mock implementation.
C10_Construction ==
  (provider.called /\ ~provider.ok) =>
    IF agent = "StoryAgent"
    THEN /\ instance.constructed
         /\ ~instance.use_llm /\ instance.llm = NoClient
         /\ instance.raised = None
         /\ apc \in {"constructed", "done", "responded"}
         /\ apc \in {"done", "responded"} => op = "_generate_stories_mock"
    ELSE /\ ~instance.constructed
         /\ instance.raised = provider.error
         /\ instance.raised[1] = "Nenhum provedor LLM pode ser inicializado."
         /\ apc \in {"failed", "responded"}
         /\ op = "none"

C10_Witness ==
  /\ provider.called /\ ~provider.ok
  /\ agent = "BugFixerAgent"
  /\ apc = "failed"
  /\ ~instance.constructed

\* ------------------------------------------------------------------ C11
FixBugsRan == agent = "BugFixerAgent" /\ op = "fix_bugs" /\ outcome.called

\* the LLM call of fix_bugs raised
FixBugsLLMFailed == FixBugsRan /\ ~agent_llm.ok

\* C11: when the LLM call fails during fix_bugs the failure is not
\* propagated and the agent returns the fallback response with success = True,
\* for "x = 1/0" a fixed_code with a guarded division (so not the code that
\* was sent), and non-empty changes_made and prevention_tips.
C11_Claim ==
  FixBugsLLMFailed =>
    /\ outcome.ok
    /\ outcome.val.success
    /\ request.code_with_bug = Str("x = 1/0") => outcome.val.fixed_code # Str("x = 1/0")
    /\ outcome.val.changes_made # <<>>
    /\ outcome.val.prevention_tips # <<>>

\* what the code does instead: the fallback response says success = False
\* and its fixed_code is the request's code with "erro" replaced
C11_Fallback ==
  FixBugsLLMFailed =>
    /\ outcome.ok
    /\ ~outcome.val.success
    /\ outcome.val.fixed_code = replace(request.code_with_bug, "erro", "corrigido")
    /\ outcome.val.changes_made # <<>>
    /\ outcome.val.prevention_tips # <<>>

C11_Witness ==
  /\ FixBugsLLMFailed
  /\ request.code_with_bug = Str("x = 1/0")
  /\ outcome.val.fixed_code = Str("x = 1/0")

\* ------------------------------------------------------------------ C12
TestsRan ==
  agent = "TestGeneratorAgent" /\ op = "generate_tests" /\ outcome.called

\* the LLM call or the parsing of its response failed
TestsLLMFailed ==
  /\ TestsRan
  /\ ~generate_tests_with_llm(get_code_content(request), request, agent_llm).ok

\* C12: when the LLM call or the parsing of its response fails, the fallback
\* generator is used and POST /code/tests/generate answers 201 with
\* success = true, a non-empty tests list and an analysis, for every
\* schema-valid request.
C12_Claim ==
  (TestsLLMFailed /\ apc = "responded") =>
    /\ reply.status = 201
    /\ reply.success
    /\ reply.body.tests # <<>>
    /\ reply.body.analysis.type = "CodeAnalysis"

\* the classes with methods that the fallback finds in the request's code
FallbackClasses ==
  SelectSeq(class_details(get_code_content(request), request.language),
            LAMBDA c : c.methods # <<>>)

\* what the code does: the fallback is used and does not raise, but it writes
\* tests only for the methods of classes, and its pytest templates import from
\* your_module, which the integrity check rejects; in both cases the answer
\* is 500 TEST_GENERATION_ERROR
C12_FallbackAnswers ==
  (TestsLLMFailed /\ get_code_content(request).text # None) =>
    /\ outcome.ok
    /\ outcome.val.tests
         = generate_tests_fallback(get_code_content(request), request).val
    /\ apc = "responded" =>
         IF /\ FallbackClasses # <<>>
            /\ ~(/\ request.language = "python"
                 /\ agent_determine_test_framework(request.test_framework,
                                                   request.language) = "pytest")
         THEN reply.status = 201 /\ reply.success /\ reply.body.tests # <<>>
         ELSE /\ reply.status = 500
              /\ ~reply.success
              /\ reply.error = Str("TEST_GENERATION_ERROR")

C12_Witness ==
  /\ TestsLLMFailed
  /\ ~agent_llm.ok
  /\ request.input_type = "direct"
  /\ request.code_content = PyFunction
  /\ request.language = "python"
  /\ request.test_framework = "pytest"
  /\ outcome.ok /\ outcome.val.tests = <<>>
  /\ apc = "responded"
  /\ reply.status = 500

\* ------------------------------------------------------------------ C13
StoriesRan ==
  /\ agent = "StoryAgent"
  /\ op \in {"_generate_stories_with_llm", "_generate_stories_mock"}
  /\ outcome.called

\* the LLM is disabled, or its call failed
OnMockPath == StoriesRan /\ (~instance.use_llm \/ ~agent_llm.ok)

\* C13: on the mock/fallback path generate_stories never raises, returns at
\* least one GeneratedStory for every valid request and story type, and more
\* than one when story_type is EPIC.
C13_Claim ==
  OnMockPath =>
    /\ outcome.ok
    /\ Len(outcome.val) >= 1
    /\ \A i \in DOMAIN outcome.val : outcome.val[i].type = "GeneratedStory"
    /\ (request.story_type = EPIC => Len(outcome.val) > 1)

\* what the code does: an EPIC whose context is not about innovation raises
\* the validation error of the related stories; every other request gets one
\* story, an EPIC about innovation three
C13_MockStories ==
  OnMockPath =>
    IF request.story_type = EPIC /\ ~IsInnovation(request.context)
    THEN ~outcome.ok
    ELSE /\ outcome.ok
         /\ Len(outcome.val) = (IF request.story_type = EPIC THEN 3 ELSE 1)

C13_Witness ==
  /\ OnMockPath
  /\ request.story_type = EPIC
  /\ request.context = <<"sistema", "de", "gestao", "de", "ideias">>
  /\ ~outcome.ok
  /\ apc = "responded"
  /\ reply.status = 500

\* ------------------------------------------------------------------ C14
\* C14: for every schema-valid bug-fix request POST /fix/bugs answers 200
\* with success true and the fixed_code, explanation and changes_made of the
\* result fix_bugs returned.
C14_Claim ==
  (agent = "BugFixerAgent" /\ apc = "responded" /\ FixBugsRan) =>
    /\ reply.status = 200
    /\ reply.success
    /\ reply.body.fixed_code = outcome.val.fixed_code
    /\ reply.body.explanation = outcome.val.explanation
    /\ reply.body.changes_made = outcome.val.changes_made

\* what the code does instead: every request is answered 500 BUG_FIX_ERROR
C14_AlwaysFails ==
  (agent = "BugFixerAgent" /\ apc = "responded") =>
    /\ reply.status = 500
    /\ reply.error = Str("BUG_FIX_ERROR")

C14_Witness ==
  /\ agent = "BugFixerAgent" /\ apc = "responded" /\ FixBugsRan
  /\ agent_llm.ok /\ outcome.val.success
  /\ reply.status = 500

\* ------------------------------------------------------------------ C15
IsInfix(a, b) == \E i \in 1..(Len(b) - Len(a) + 1) : SubSeq(b, i, i + Len(a) - 1) = a

\* C15: GitLabHandler.process never raises: whatever URL it is given and
\* whatever the repository fetch does, it returns a string, and when the fetch
\* raises the string contains the error message and the URL; after
\* process_gitlab the state's processed_code is a string.
C15_FailOpen ==
  /\ node = "process_gitlab" =>
       \A repo \in RepoOutcomes :
         LET out == GitLabHandler_process(state.gitlab_url, repo)
         IN /\ out # None
            /\ ~repo.ok => IsInfix(repo.val, out) /\ IsInfix(state.gitlab_url, out)
  /\ Ran("process_gitlab") => state.processed_code # None
  /\ trace = <<"validate_input", "process_gitlab">> => state.error_message = None

C15_Witness ==
  /\ Ran("process_gitlab")
  /\ IsPrefix(<<"# Error processing GitLab repository: ", "Invalid GitLab URL">>,
              state.processed_code)
  /\ IsInfix(state.gitlab_url, state.processed_code)

\* ------------------------------------------------------------------ C16
\* C16: after process_text, processed_code is the submitted text_input,
\* unchanged, and the text handler made no LLM call.
C16_Claim ==
  trace = <<"validate_input", "process_text">> =>
    /\ state.processed_code = state.text_input
    /\ last_llm = NotCalled

\* what the code does instead: process_text calls the LLM client on the text
\* and processed_code is what the client returns: the LLM's tests, or the
\* client's error text around the original code
C16_HandlerCallsLLM ==
  trace = <<"validate_input", "process_text">> =>
    /\ last_llm # NotCalled
    /\ state.processed_code = client_generate_tests(state.text_input, last_llm)

C16_Witness ==
  /\ trace = <<"validate_input", "process_text">>
  /\ state.text_input = Str("def")
  /\ state.processed_code = Str("tests")

\* ------------------------------------------------------------------ C17
\* C17: the text language detector tells language families apart by keyword:
\* a text with function and without def gets another tag than a text with def.
C17_Claim ==
  (Ran("process_text") /\ Contains(state.text_input, "function")
     /\ ~Contains(state.text_input, "def")) =>
    state.detected_language # TextHandler_detect_language(Str("def"))

\* what the code does instead: every text gets the tag "python"
C17_AlwaysPython == Ran("process_text") => state.detected_language = Str("python")

C17_Witness ==
  /\ Ran("process_text")
  /\ state.text_input = Str("function")
  /\ state.detected_language = Str("python")

\* ------------------------------------------------------------------ C18
FileProcessed == Ran("process_file") /\ state.error_message = None

EndsWith(s, tok) == s # <<>> /\ s[Len(s)] = tok

\* C18 as stated: any path ending in ".py" yields "python" and any other
\* extension of the model's paths yields "unknown".
C18_Original ==
  FileProcessed =>
    state.detected_language =
      IF EndsWith(state.file_path, ".py") THEN Str("python") ELSE Str("unknown")

\* C18: the language comes from the extension os.path.splitext finds, not
\* from the content: a path ending in ".py" yields "python" unless ".py" is
\* the whole file name (a name that only starts with a dot has no extension),
\* which yields "unknown" as does every extension absent from the table.
C18_Extension ==
  FileProcessed =>
    state.detected_language =
      IF EndsWith(state.file_path, ".py") /\ Len(state.file_path) > 1
      THEN Str("python") ELSE Str("unknown")

C18_Witness ==
  /\ FileProcessed
  /\ state.file_path = Str(".py")
  /\ state.detected_language = Str("unknown")

\* ------------------------------------------------------------------ C19
\* the first k source files of the repository, in tree order
FirstSourceFiles(k) ==
  LET all == filter_source_files(Tree(gl_repo.size))
  IN IF Len(all) > k THEN SubSeq(all, 1, k) ELSE all

\* C19: the number of files fetched for a GitLab request never exceeds the
\* request's max_files; files beyond the limit are dropped in tree order and
\* total_files never exceeds that maximum.
C19_Claim ==
  /\ Len(gl_files_content) <= gl_request.max_files
  /\ gl_next - 1 <= gl_request.max_files
  /\ gl_pc = "files" => gl_source_files = FirstSourceFiles(gl_request.max_files)
  /\ gl_result.ok => gl_result.total_files <= gl_request.max_files

\* what the code does: the request's max_files never reaches the service, the
\* limit is always the default 50
C19_DefaultLimit ==
  /\ gl_pc # "request" => gl_call.max_files = DefaultMaxFiles
  /\ Len(gl_files_content) <= DefaultMaxFiles
  /\ gl_next - 1 <= DefaultMaxFiles
  /\ gl_pc = "files" => gl_source_files = FirstSourceFiles(DefaultMaxFiles)
  /\ gl_result.ok =>
       /\ gl_result.total_files <= DefaultMaxFiles
       /\ gl_result.total_files = Len(gl_files_content)

C19_Witness ==
  /\ gl_request.max_files = 10
  /\ gl_repo.size = 12
  /\ gl_repo.unreadable = {}
  /\ gl_pc = "returned"
  /\ gl_result.ok
  /\ gl_result.total_files = 12

\* ------------------------------------------------------------------ C20
Other(r) == CHOOSE s \in Requests : s # r

HasRead(r) == upc[r] \in {"processed", "responded"} /\ temp_file_path[r] # None

\* C20: under every interleaving of two file-upload requests, each request's
\* workflow reads exactly the content uploaded in that request, and the
\* cleanup of one request never removes or replaces a file that the other
\* request still has to read.
C20_Claim ==
  \A r \in Requests :
    /\ HasRead(r) => read_content[r] = Returned(upload[r].content)
    /\ upc[r] = "saved" =>
         /\ disk[temp_file_path[r]].exists
         /\ disk[temp_file_path[r]].data = upload[r].content

\* what the code does: the temporary path is the upload's file name, so two
\* uploads of one name share a file and the cleanup of one can remove it
\* before the other reads; uploads of different names keep their files; and
\* the file is written from an upload that validate_file has read to its end,
\* so what the workflow reads is empty
C20_SharedPath ==
  \A r \in Requests :
    /\ HasRead(r) =>
         IF read_content[r].ok THEN read_content[r].val = <<>>
         ELSE /\ upload[r].filename = upload[Other(r)].filename
              /\ upc[Other(r)] = "responded"
    /\ upc[r] = "saved" =>
         \/ disk[temp_file_path[r]] = [exists |-> TRUE, data |-> <<>>]
         \/ /\ ~disk[temp_file_path[r]].exists
            /\ upload[r].filename = upload[Other(r)].filename
            /\ upc[Other(r)] = "responded"

C20_Witness ==
  /\ upload[1].filename = <<"a", ".py">>
  /\ upload[2].filename = <<"a", ".py">>
  /\ upload[1].content # upload[2].content
  /\ upc[1] = "responded"
  /\ upload_response[1].status = 200
  /\ upc[2] = "processed"
  /\ read_content[2] = Raised(Str("No such file or directory"))

TestsFailIntegrity ==
  /\ TestsRan
  /\ outcome.ok
  /\ ~validate_test_integrity(outcome.val.tests)

\* C22: a request whose test_framework does not fit its language is answered
\* 422 LANGUAGE_FRAMEWORK_INCOMPATIBLE without any agent being constructed,
\* and generated tests that fail the integrity validation are answered
\* 422 INVALID_TESTS_GENERATED.
C22_Claim ==
  (agent = "TestGeneratorAgent" /\ apc = "responded") =>
    /\ (request.kind = "CodeRequest" /\ ~Consistent(request)) =>
         /\ reply.status = 422
         /\ reply.error = Str("LANGUAGE_FRAMEWORK_INCOMPATIBLE")
         /\ load_calls = 0
         /\ ~instance.constructed
    /\ TestsFailIntegrity =>
         /\ reply.status = 422
         /\ reply.error = Str("INVALID_TESTS_GENERATED")

\* what the code does: no agent is constructed for an inconsistent request,
\* but both answers are 500; the first is the server's plain 500 and the
\* second is TEST_GENERATION_ERROR wrapping the 422
C22_Answers500 ==
  (agent = "TestGeneratorAgent" /\ apc = "responded") =>
    /\ (request.kind = "CodeRequest" /\ ~Consistent(request)) =>
         /\ reply = UnhandledError
         /\ load_calls = 0
         /\ ~instance.constructed
    /\ TestsFailIntegrity =>
         /\ reply.status = 500
         /\ reply.error = Str("TEST_GENERATION_ERROR")

C22_Witness ==
  /\ agent = "TestGeneratorAgent"
  /\ apc = "responded"
  /\ request.kind = "CodeRequest"
  /\ request.language = "python"
  /\ request.test_framework = "jest"
  /\ load_calls = 0
  /\ reply.status = 500

\* ------------------------------------------------------------------ C23
\* a direct request without code: the key is missing, null or ""
DirectWithoutCode ==
  /\ agent = "TestGeneratorAgent"
  /\ request.kind \in {"body", "CodeRequest"}
  /\ request.input_type = "direct"
  /\ ~Truthy(request.code_content.text)

\* C23: a request with input_type "direct" whose code_content is missing or
\* empty is rejected at schema validation with 422, before any agent is
\* constructed or any LLM call is made.
C23_Claim ==
  DirectWithoutCode =>
    /\ load_calls = 0
    /\ ~instance.constructed
    /\ agent_llm = NotCalled
    /\ apc = "responded" => reply.status = 422

\* what the code does: a code_content of null or "" is rejected with 422 and
\* nothing is constructed, but a body without the key passes validation with
\* code_content None and reaches the agent
C23_OnlyGivenValues ==
  DirectWithoutCode =>
    IF request.kind = "body"
    THEN /\ request.code_content.text \in {None, <<>>}
         /\ load_calls = 0
         /\ agent_llm = NotCalled
         /\ reply.status = 422
    ELSE /\ request.code_content = NoSourceCode
         /\ Consistent(request) => instance.constructed /\ load_calls = 1
         /\ apc = "responded" => reply.status # 422

C23_Witness ==
  /\ DirectWithoutCode
  /\ request.kind = "CodeRequest"
  /\ request.language = "python"
  /\ request.test_framework = "auto"
  /\ load_calls = 1
  /\ agent_llm.ok
  /\ apc = "responded"
  /\ reply.status = 201

\* ------------------------------------------------------------------ C24
\* process_gitlab ran and the repository fetch raised: processed_code is the
\* handler's placeholder
FetchFailed ==
  /\ Ran("process_gitlab")
  /\ IsPrefix(<<"# Error processing GitLab repository: ">>, state.processed_code)

SavedAlone(r) == upc[r] = "saved" /\ upc[Other(r)] = "start"

\* C25: in POST /upload/generate-tests the temporary file holds exactly the
\* uploaded bytes: running validate_file before save_temp_file does not change
\* what is written.
C25_Claim ==
  \A r \in Requests :
    SavedAlone(r) =>
      /\ disk[temp_file_path[r]].exists
      /\ disk[temp_file_path[r]].data = upload[r].content

\* what the code does: validate_file leaves the upload at its end, and
\* save_temp_file writes what is left to read, which is nothing
C25_WritesRest ==
  \A r \in Requests :
    SavedAlone(r) =>
      /\ upload[r].pos = Len(upload[r].content)
      /\ disk[temp_file_path[r]] = [exists |-> TRUE, data |-> <<>>]

C25_Witness ==
  /\ SavedAlone(1)
  /\ upload[1].content = Str("def f(): return 1")
  /\ disk[temp_file_path[1]].exists
  /\ disk[temp_file_path[1]].data = <<>>

\* ------------------------------------------------------------------ C26
ProcessingErrors ==
  {"Text processing error: ", "File processing error: ", "GitLab processing error: "}

\* the processing node ran and its handler raised
ProcessingFailed ==
  /\ Len(trace) >= 2
  /\ trace[2] \in ProcessingNodes
  /\ Len(state.messages) >= 2
  /\ state.messages[2][1] \in ProcessingErrors

\* the error the processing node caught
OriginalError == Tail(state.messages[2])

NoProcessedCode == Str("No processed code available for test generation")

\* C26: error_message holds only the most recent error: when a processing node
\* fails it holds that node's error until generate_tests runs, generate_tests
\* then fails without calling the LLM and overwrites it with "No processed
\* code available for test generation", which is the error of the final
\* payload; the original error survives only in the trace messages.
C26_LastError ==
  ProcessingFailed =>
    /\ state.processed_code = None
    /\ Len(trace) = 2 => state.error_message = OriginalError
    /\ Ran("generate_tests") =>
         /\ state.error_message = NoProcessedCode
         /\ last_llm = NotCalled
         /\ state.messages[3] = <<"Test generation error: ">> \o NoProcessedCode
    /\ Ran("format_output") =>
         /\ ~state.final_output.success
         /\ state.final_output.error = NoProcessedCode
         /\ state.final_output.processing_messages[2][1] \in ProcessingErrors
         /\ Tail(state.final_output.processing_messages[2]) = OriginalError

C26_Witness ==
  /\ ProcessingFailed
  /\ OriginalError = Str("No such file")
  /\ Ran("format_output")
  /\ state.final_output.error = NoProcessedCode
  /\ state.final_output.processing_messages[2] = <<"File processing error: ", "No such file">>

\* ------------------------------------------------------------------ C27
\* the entry point returned a payload that says success = false
FailurePayload == result.present /\ ~result.success

\* C27: every final payload with success = false carries a non-empty error
\* message, also when the LLM returns an empty text without raising.
C27_Claim ==
  FailurePayload => Truthy(result.error)

\* what the code does: the failure payload's error is the state's
\* error_message, which nobody set when generate_tests got an empty text from
\* the LLM without an exception
C27_ErrorOfLastFailure ==
  FailurePayload =>
    /\ result.error = state.error_message
    /\ result.error = None <=> (Truthy(state.processed_code) /\ last_llm = Returned(<<>>))

C27_Witness ==
  /\ FailurePayload
  /\ Ran("generate_tests")
  /\ last_llm = Returned(<<>>)
  /\ state.generated_tests = <<>>
  /\ result.error = None

\* ------------------------------------------------------------------ C28
\* one message for every node that ran; the payload has the messages of
\* validate_input, the processing node and generate_tests, in that order
MessagePerNode ==
  /\ Len(state.messages) = Len(trace)
  /\ Ran("format_output") =>
       /\ state.final_output.processing_messages = SubSeq(state.messages, 1, 3)
       /\ trace[1] = "validate_input"
       /\ trace[2] \in ProcessingNodes
       /\ trace[3] = "generate_tests"
  /\ result.present => result.processing_messages = SubSeq(state.messages, 1, 3)
  /\ (result.present /\ result.success /\ trace[2] = "process_text") =>
       result.processing_messages =
         << Str("Input validation successful"),
            Str("Text input processed successfully"),
            Str("Unit tests generated successfully") >>

\* a step leaves the messages alone or appends one message to them
AppendsOne ==
  \/ state'.messages = state.messages
  \/ /\ Len(state'.messages) = Len(state.messages) + 1
     /\ IsPrefix(state.messages, state'.messages)

\* C28: the trace log is ordered and append-only: validate_input, the
\* processing node and generate_tests each append exactly one message, on
\* success and on failure, and the processing_messages of the final payload
\* are exactly those messages in that order; for a successful text run:
\* validation, text processed, tests generated.
C28_TraceLog == [](MessagePerNode) /\ [][AppendsOne]_vars

C28_Witness ==
  /\ result.present
  /\ ~result.success
  /\ trace[2] = "process_file"
  /\ result.processing_messages =
       << Str("Input validation successful"),
          <<"File processing error: ", "No such file">>,
          <<"Test generation error: ", "No processed code available for test generation">> >>

\* ------------------------------------------------------------------ C29
\* POST /generate/from-text answered after the workflow ran
TextAnswered == call.via = "api" /\ node = "responded" /\ trace # <<>>

ExecutorErrors == {Str("cannot schedule new futures after shutdown"), <<>>}

\* C29: POST /generate/from-text answers every workflow failure with 400
\* GENERATION_FAILED carrying the recorded error, also when the failure is an
\* exception that OrchestratorService turned into a success = false payload,
\* and answers 200 only when the payload has success = true.
C29_Claim ==
  /\ TextAnswered =>
       IF result.success
       THEN response.status = 200
       ELSE /\ response.status = 400
            /\ response.error_code = Str("GENERATION_FAILED")
            /\ response.error = result.error
  /\ \A e \in ExecutorErrors :
       LET r == generate_from_text(OrchestratorService_generate_from_text(Raised(e)))
       IN r.status = 400 /\ r.error_code = Str("GENERATION_FAILED") /\ r.error = e

\* what the code does: 200 exactly for success = true and 400
\* GENERATION_FAILED for a failure with a recorded error or a converted
\* exception, but a failure without an error, which is what an empty LLM
\* answer gives, is answered 500 INTERNAL_ERROR
C29_Answers ==
  /\ TextAnswered =>
       /\ response.status = 200 <=> result.success
       /\ (~result.success /\ result.error # None) =>
            /\ response.status = 400
            /\ response.error_code = Str("GENERATION_FAILED")
            /\ response.error = result.error
       /\ (~result.success /\ result.error = None) =>
            /\ response.status = 500
            /\ response.error_code = Str("INTERNAL_ERROR")
  /\ \A e \in ExecutorErrors :
       LET r == generate_from_text(OrchestratorService_generate_from_text(Raised(e)))
       IN r.status = 400 /\ r.error_code = Str("GENERATION_FAILED") /\ r.error = e

C29_Witness ==
  /\ TextAnswered
  /\ result.present
  /\ ~result.success
  /\ result.error = None
  /\ last_llm = Returned(<<>>)
  /\ response.status = 500
  /\ response.error_code = Str("INTERNAL_ERROR")

\* ------------------------------------------------------------------ C30
\* the constructor of the named provider's client was attempted and raised
ConstructionFailed(name) ==
  \E i \in DOMAIN provider.attempted :
    provider.attempted[i] = [provider |-> name, ok |-> FALSE]

\* C30: when the first credential set is complete and the construction of its
\* client fails, the selection goes on to the second set: if that set is
\* complete its constructor is attempted and, if it succeeds, its client is
\* returned; the initialization error is raised only when no client could be
\* constructed from either set, and it is the selection's own error, never
\* the construction failure of one provider.
C30_Fallback ==
  provider.called =>
    /\ (ConstructionFailed("azure") /\ check_openai_credentials(env)) =>
         /\ Attempted("openai")
         /\ provider.ok <=> ~ConstructionFailed("openai")
         /\ provider.ok => provider.client.kind = Str("ChatOpenAI")
    /\ ~provider.ok =>
         /\ \A i \in DOMAIN provider.attempted : ~provider.attempted[i].ok
         /\ check_azure_credentials(env) => ConstructionFailed("azure")
         /\ check_openai_credentials(env) => ConstructionFailed("openai")
         /\ provider.error = provider_error_msg(check_azure_credentials(env),
                                                check_openai_credentials(env))
    /\ provider.ok => provider.error = None

C30_Witness ==
  /\ provider.called
  /\ provider.attempted = << [provider |-> "azure", ok |-> FALSE],
                             [provider |-> "openai", ok |-> TRUE] >>
  /\ provider.ok
  /\ provider.client.kind = Str("ChatOpenAI")
  /\ provider.client.api_key = <<"$", "OPENAI_API_KEY">>

====
